---- MODULE Spec2Model ----
(***************************************************************************)
(* Version manager: the in-memory ServiceRegistry (service table,         *)
(* pairwise compatibility matrix, application configs), the catalog-based *)
(* combination validation and the HTTP handlers that wrap them.           *)
(***************************************************************************)
EXTENDS Integers, Sequences, FiniteSets, TLC

VARIABLES
    services,             \* ServiceRegistry.services: insertion-ordered Map, a sequence of [key, value]
    compatibilityMatrix,  \* ServiceRegistry.compatibilityMatrix: key string -> entry
    applicationConfigs,   \* ServiceRegistry.applicationConfigs: "appId:version" -> config
    clock,                \* the wall clock read by new Date()
    versionData,          \* the catalog handed to createApp
    authToken,            \* process.env.SERVICE_AUTH_TOKEN
    last                  \* the last call and what it returned

vars == <<services, compatibilityMatrix, applicationConfigs, clock, versionData, authToken, last>>

\* JavaScript undefined, for string-valued fields
Undefined == "undefined"

\* Largest clock value explored
MaxClock == 1

----------------------------------------------------------------------------
(* semver: the versions and ranges the model draws from, parsed by table   *)

SemverParse(v) ==
    CASE v = "0.9.0" -> <<0, 9, 0>>
      [] v = "1.0.0" -> <<1, 0, 0>>
      [] v = "1.1.0" -> <<1, 1, 0>>
      [] v = "2.0.0" -> <<2, 0, 0>>
      [] OTHER -> <<>>

semverValid(v) == SemverParse(v) # <<>>

SemverGte(a, b) ==
    \/ a[1] > b[1]
    \/ a[1] = b[1] /\ a[2] > b[2]
    \/ a[1] = b[1] /\ a[2] = b[2] /\ a[3] >= b[3]

RangeParse(r) ==
    CASE r = "*"       -> [op |-> "*",  base |-> <<0, 0, 0>>]
      [] r = ">=0.5.0" -> [op |-> ">=", base |-> <<0, 5, 0>>]
      [] r = ">=1.0.0" -> [op |-> ">=", base |-> <<1, 0, 0>>]
      [] r = ">=2.0.0" -> [op |-> ">=", base |-> <<2, 0, 0>>]
      [] r = "^1.0.0"  -> [op |-> "^",  base |-> <<1, 0, 0>>]
      [] OTHER         -> [op |-> "invalid", base |-> <<0, 0, 0>>]

\* semver.satisfies: false for an unparsable version or range (undefined included)
semverSatisfies(v, r) ==
    LET t == SemverParse(v)
        s == RangeParse(r)
    IN  /\ t # <<>>
        /\ s.op # "invalid"
        /\ CASE s.op = "*"  -> TRUE
             [] s.op = ">=" -> SemverGte(t, s.base)
             [] s.op = "^"  -> SemverGte(t, s.base) /\ t[1] = s.base[1]

\* No default: an absent range is handed to semver as it is
OrDefault_NoDefault(x, d) == x

\* x || d on strings: the empty string and undefined are falsy
OrDefault(x, d) == IF x = Undefined \/ x = "" THEN d ELSE x

----------------------------------------------------------------------------
(* The insertion-ordered Map holding the service table                     *)

MapHas(m, k) == \E i \in 1..Len(m) : m[i].key = k

MapIndex(m, k) == CHOOSE i \in 1..Len(m) : m[i].key = k

MapGet(m, k) == m[MapIndex(m, k)].value

\* A set that moves an existing key to the end
MapSet_MoveToEnd(m, k, v) ==
    Append(SelectSeq(m, LAMBDA e : e.key # k), [key |-> k, value |-> v])

\* Map.set: an existing key keeps its position, a new key goes last
MapSet(m, k, v) ==
    IF MapHas(m, k)
    THEN [m EXCEPT ![MapIndex(m, k)] = [key |-> k, value |-> v]]
    ELSE Append(m, [key |-> k, value |-> v])

\* Map.delete
MapDelete(m, k) == SelectSeq(m, LAMBDA e : e.key # k)

MapValues(m) == [i \in 1..Len(m) |-> m[i].value]

----------------------------------------------------------------------------
(* ServiceRegistry: each operation as the outcome it computes              *)

\* registerService that stores the registration before it validates the version
registerService_StoreFirst(svcs, serviceId, serviceData, t1, t2) ==
    LET service == [id |-> serviceId,
                    name |-> serviceData.name,
                    version |-> serviceData.version,
                    endpoints |-> serviceData.endpoints,
                    dependencies |-> IF serviceData.dependencies = Undefined
                                     THEN "{}" ELSE serviceData.dependencies,
                    registeredAt |-> t1,
                    lastUpdated |-> t2]
    IN  IF ~semverValid(serviceData.version)
        THEN [threw |-> TRUE,
              error |-> "Invalid semantic version: " \o serviceData.version,
              services |-> MapSet(svcs, serviceId, service),
              ret |-> <<>>]
        ELSE [threw |-> FALSE,
              error |-> "",
              services |-> MapSet(svcs, serviceId, service),
              ret |-> <<service>>]

\* registerService that keeps the registeredAt of an existing registration
registerService_KeepRegisteredAt(svcs, serviceId, serviceData, t1, t2) ==
    IF ~semverValid(serviceData.version)
    THEN [threw |-> TRUE,
          error |-> "Invalid semantic version: " \o serviceData.version,
          services |-> svcs,
          ret |-> <<>>]
    ELSE LET service == [id |-> serviceId,
                         name |-> serviceData.name,
                         version |-> serviceData.version,
                         endpoints |-> serviceData.endpoints,
                         dependencies |-> IF serviceData.dependencies = Undefined
                                          THEN "{}" ELSE serviceData.dependencies,
                         registeredAt |-> IF MapHas(svcs, serviceId)
                                          THEN MapGet(svcs, serviceId).registeredAt ELSE t1,
                         lastUpdated |-> t2]
         IN  [threw |-> FALSE,
              error |-> "",
              services |-> MapSet(svcs, serviceId, service),
              ret |-> <<service>>]

\* registerService; t1 and t2 are the two clock readings
registerService(svcs, serviceId, serviceData, t1, t2) ==
    IF ~semverValid(serviceData.version)
    THEN [threw |-> TRUE,
          error |-> "Invalid semantic version: " \o serviceData.version,
          services |-> svcs,
          ret |-> <<>>]
    ELSE LET service == [id |-> serviceId,
                         name |-> serviceData.name,
                         version |-> serviceData.version,
                         endpoints |-> serviceData.endpoints,
                         dependencies |-> IF serviceData.dependencies = Undefined
                                          THEN "{}" ELSE serviceData.dependencies,
                         registeredAt |-> t1,
                         lastUpdated |-> t2]
         IN  [threw |-> FALSE,
              error |-> "",
              services |-> MapSet(svcs, serviceId, service),
              ret |-> <<service>>]

\* updateServiceVersion that validates the version before it looks the id up
updateServiceVersion_VersionFirst(svcs, serviceId, version, t) ==
    IF ~semverValid(version)
    THEN [threw |-> TRUE,
          error |-> "Invalid semantic version: " \o version,
          services |-> svcs,
          ret |-> <<>>]
    ELSE IF ~MapHas(svcs, serviceId)
    THEN [threw |-> TRUE,
          error |-> "Service " \o serviceId \o " not found",
          services |-> svcs,
          ret |-> <<>>]
    ELSE LET service == [MapGet(svcs, serviceId) EXCEPT !.version = version,
                                                         !.lastUpdated = t]
         IN  [threw |-> FALSE,
              error |-> "",
              services |-> MapSet(svcs, serviceId, service),
              ret |-> <<service>>]

\* updateServiceVersion that stores whatever version it is given
updateServiceVersion_NoVersionCheck(svcs, serviceId, version, t) ==
    IF ~MapHas(svcs, serviceId)
    THEN [threw |-> TRUE,
          error |-> "Service " \o serviceId \o " not found",
          services |-> svcs,
          ret |-> <<>>]
    ELSE LET service == [MapGet(svcs, serviceId) EXCEPT !.version = version,
                                                         !.lastUpdated = t]
         IN  [threw |-> FALSE,
              error |-> "",
              services |-> MapSet(svcs, serviceId, service),
              ret |-> <<service>>]

\* updateServiceVersion that also resets registeredAt, as a re-registration does
updateServiceVersion_ResetRegisteredAt(svcs, serviceId, version, t) ==
    IF ~MapHas(svcs, serviceId)
    THEN [threw |-> TRUE,
          error |-> "Service " \o serviceId \o " not found",
          services |-> svcs,
          ret |-> <<>>]
    ELSE IF ~semverValid(version)
    THEN [threw |-> TRUE,
          error |-> "Invalid semantic version: " \o version,
          services |-> svcs,
          ret |-> <<>>]
    ELSE LET service == [MapGet(svcs, serviceId) EXCEPT !.version = version,
                                                         !.registeredAt = t,
                                                         !.lastUpdated = t]
         IN  [threw |-> FALSE,
              error |-> "",
              services |-> MapSet(svcs, serviceId, service),
              ret |-> <<service>>]

\* updateServiceVersion; t is the clock reading
updateServiceVersion(svcs, serviceId, version, t) ==
    IF ~MapHas(svcs, serviceId)
    THEN [threw |-> TRUE,
          error |-> "Service " \o serviceId \o " not found",
          services |-> svcs,
          ret |-> <<>>]
    ELSE IF ~semverValid(version)
    THEN [threw |-> TRUE,
          error |-> "Invalid semantic version: " \o version,
          services |-> svcs,
          ret |-> <<>>]
    ELSE LET service == [MapGet(svcs, serviceId) EXCEPT !.version = version,
                                                         !.lastUpdated = t]
         IN  [threw |-> FALSE,
              error |-> "",
              services |-> MapSet(svcs, serviceId, service),
              ret |-> <<service>>]

\* getService: the registration, or nothing
getService(svcs, serviceId) ==
    IF MapHas(svcs, serviceId) THEN <<MapGet(svcs, serviceId)>> ELSE <<>>

getAllServices(svcs) == MapValues(svcs)

\* unregisterService that empties the whole table
unregisterService_Clear(svcs, serviceId) ==
    [ret |-> MapHas(svcs, serviceId), services |-> <<>>]

\* unregisterService: Map.delete reports whether the key was there
unregisterService(svcs, serviceId) ==
    [ret |-> MapHas(svcs, serviceId), services |-> MapDelete(svcs, serviceId)]

----------------------------------------------------------------------------
(* ServiceRegistry: the pairwise compatibility matrix                      *)

\* setCompatibilityMatrix without the Map branch: a Map has no own enumerable properties
setCompatibilityMatrix_NoMapBranch(matrix) ==
    IF matrix.isMap
    THEN <<>>
    ELSE [k \in DOMAIN matrix.entries |-> matrix.entries[k]]

\* setCompatibilityMatrix: a fresh Map, copied from a Map (new Map(matrix)) or built from
\* the own properties of a plain object (new Map(Object.entries(matrix)))
setCompatibilityMatrix(matrix) ==
    IF matrix.isMap
    THEN [k \in DOMAIN matrix.entries |-> matrix.entries[k]]
    ELSE LET entries == {<<k, matrix.entries[k]>> : k \in DOMAIN matrix.entries}
         IN  [k \in {e[1] : e \in entries} |-> (CHOOSE e \in entries : e[1] = k)[2]]

MatrixKey(serviceA, serviceB) == serviceA \o ":" \o serviceB

\* A lookup that falls back on any entry of the matrix when neither key is there
MatrixLookup_AnyEntry(matrix, key, reverseKey) ==
    IF key \in DOMAIN matrix THEN <<matrix[key]>>
    ELSE IF reverseKey \in DOMAIN matrix THEN <<matrix[reverseKey]>>
    ELSE IF DOMAIN matrix # {} THEN <<matrix[CHOOSE k \in DOMAIN matrix : TRUE]>>
    ELSE <<>>

\* get(key) || get(reverseKey): the entry under the direct key wins
MatrixLookup(matrix, key, reverseKey) ==
    IF key \in DOMAIN matrix THEN <<matrix[key]>>
    ELSE IF reverseKey \in DOMAIN matrix THEN <<matrix[reverseKey]>>
    ELSE <<>>

\* validateCompatibility that swaps the two ranges when the entry is found under the
\* reversed key
validateCompatibility_SwapOnReverse(matrix, serviceA, versionA, serviceB, versionB) ==
    LET found == MatrixLookup(matrix, MatrixKey(serviceA, serviceB), MatrixKey(serviceB, serviceA))
        reversed == MatrixKey(serviceA, serviceB) \notin DOMAIN matrix
    IN  IF found = <<>>
        THEN [compatible |-> FALSE,
              status |-> "unknown",
              message |-> "No compatibility data available for " \o serviceA \o " and " \o serviceB]
        ELSE LET compatibility == found[1]
                 rangeA == OrDefault(IF reversed THEN compatibility.versionRangeB
                                                 ELSE compatibility.versionRangeA, "*")
                 rangeB == OrDefault(IF reversed THEN compatibility.versionRangeA
                                                 ELSE compatibility.versionRangeB, "*")
                 isACompatible == semverSatisfies(versionA, rangeA)
                 isBCompatible == semverSatisfies(versionB, rangeB)
             IN  IF ~isACompatible \/ ~isBCompatible
                 THEN [compatible |-> FALSE,
                       status |-> "incompatible",
                       message |-> "Version compatibility check failed",
                       requirements |-> [s \in {serviceA, serviceB} |->
                                            IF s = serviceB THEN rangeB ELSE rangeA]]
                 ELSE [compatible |-> TRUE,
                       status |-> IF compatibility.tested THEN "tested" ELSE "compatible",
                       message |-> IF compatibility.tested THEN "Combination has been tested"
                                                           ELSE "Versions appear compatible",
                       testedDate |-> compatibility.testedDate]

validateCompatibility(matrix, serviceA, versionA, serviceB, versionB) ==
    LET found == MatrixLookup(matrix, MatrixKey(serviceA, serviceB), MatrixKey(serviceB, serviceA))
    IN  IF found = <<>>
        THEN [compatible |-> FALSE,
              status |-> "unknown",
              message |-> "No compatibility data available for " \o serviceA \o " and " \o serviceB]
        ELSE LET compatibility == found[1]
                 rangeA == OrDefault(compatibility.versionRangeA, "*")
                 rangeB == OrDefault(compatibility.versionRangeB, "*")
                 isACompatible == semverSatisfies(versionA, rangeA)
                 isBCompatible == semverSatisfies(versionB, rangeB)
             IN  IF ~isACompatible \/ ~isBCompatible
                 THEN [compatible |-> FALSE,
                       status |-> "incompatible",
                       message |-> "Version compatibility check failed",
                       requirements |-> [s \in {serviceA, serviceB} |->
                                            IF s = serviceB THEN rangeB ELSE rangeA]]
                 ELSE [compatible |-> TRUE,
                       status |-> IF compatibility.tested THEN "tested" ELSE "compatible",
                       message |-> IF compatibility.tested THEN "Combination has been tested"
                                                           ELSE "Versions appear compatible",
                       testedDate |-> compatibility.testedDate]

\* The dependent-version check applied whether or not the dependent is registered
dependentChecked_Always(svcs, dependentService) == TRUE

\* The guard of the dependent-version check: the dependent must be registered
dependentChecked(svcs, dependentService) == MapHas(svcs, dependentService)

\* getValidVersionsForService that answers an unknown target with an empty list
getValidVersionsForService_NoThrow(svcs, matrix, targetService, dependentService, dependentVersion) ==
    IF ~MapHas(svcs, targetService)
    THEN [threw |-> FALSE, error |-> "",
          ret |-> <<[service |-> targetService,
                     validVersions |-> <<>>,
                     message |-> "Service " \o targetService \o " not found"]>>]
    ELSE LET targetServiceData == MapGet(svcs, targetService)
             found == MatrixLookup(matrix, MatrixKey(targetService, dependentService),
                                           MatrixKey(dependentService, targetService))
         IN  IF found = <<>>
             THEN [threw |-> FALSE, error |-> "",
                   ret |-> <<[service |-> targetService,
                              validVersions |-> <<targetServiceData.version>>,
                              message |-> "No compatibility constraints defined"]>>]
             ELSE LET compatibility == found[1]
                  IN  IF /\ dependentChecked(svcs, dependentService)
                         /\ ~semverSatisfies(dependentVersion, OrDefault(compatibility.versionRangeB, "*"))
                      THEN [threw |-> FALSE, error |-> "",
                            ret |-> <<[service |-> targetService,
                                       validVersions |-> <<>>,
                                       message |-> "Dependent service version " \o dependentVersion
                                                   \o " is not compatible"]>>]
                      ELSE IF ~semverSatisfies(targetServiceData.version,
                                               OrDefault(compatibility.versionRangeA, "*"))
                      THEN [threw |-> FALSE, error |-> "",
                            ret |-> <<[service |-> targetService,
                                       validVersions |-> <<>>,
                                       message |-> "Target service version " \o targetServiceData.version
                                                   \o " is not compatible"]>>]
                      ELSE [threw |-> FALSE, error |-> "",
                            ret |-> <<[service |-> targetService,
                                       validVersions |-> <<targetServiceData.version>>,
                                       compatibleRange |-> OrDefault(compatibility.versionRangeA, "*"),
                                       message |-> "Based on current compatibility matrix"]>>]

getValidVersionsForService(svcs, matrix, targetService, dependentService, dependentVersion) ==
    IF ~MapHas(svcs, targetService)
    THEN [threw |-> TRUE,
          error |-> "Service " \o targetService \o " not found",
          ret |-> <<>>]
    ELSE LET targetServiceData == MapGet(svcs, targetService)
             found == MatrixLookup(matrix, MatrixKey(targetService, dependentService),
                                           MatrixKey(dependentService, targetService))
         IN  IF found = <<>>
             THEN [threw |-> FALSE, error |-> "",
                   ret |-> <<[service |-> targetService,
                              validVersions |-> <<targetServiceData.version>>,
                              message |-> "No compatibility constraints defined"]>>]
             ELSE LET compatibility == found[1]
                  IN  IF /\ dependentChecked(svcs, dependentService)
                         /\ ~semverSatisfies(dependentVersion, OrDefault(compatibility.versionRangeB, "*"))
                      THEN [threw |-> FALSE, error |-> "",
                            ret |-> <<[service |-> targetService,
                                       validVersions |-> <<>>,
                                       message |-> "Dependent service version " \o dependentVersion
                                                   \o " is not compatible"]>>]
                      ELSE IF ~semverSatisfies(targetServiceData.version,
                                               OrDefault(compatibility.versionRangeA, "*"))
                      THEN [threw |-> FALSE, error |-> "",
                            ret |-> <<[service |-> targetService,
                                       validVersions |-> <<>>,
                                       message |-> "Target service version " \o targetServiceData.version
                                                   \o " is not compatible"]>>]
                      ELSE [threw |-> FALSE, error |-> "",
                            ret |-> <<[service |-> targetService,
                                       validVersions |-> <<targetServiceData.version>>,
                                       compatibleRange |-> OrDefault(compatibility.versionRangeA, "*"),
                                       message |-> "Based on current compatibility matrix"]>>]

----------------------------------------------------------------------------
(* ServiceRegistry: application configs                                    *)

\* A key that leaves the version out
AppKey_IdOnly(applicationId, applicationVersion) == applicationId

AppKey(applicationId, applicationVersion) == applicationId \o ":" \o applicationVersion

\* setApplicationConfig that keeps the required services of the config it overwrites
setApplicationConfig_Merge(cfgs, applicationId, applicationVersion, config, t) ==
    LET appKey == AppKey(applicationId, applicationVersion)
        earlier == IF appKey \in DOMAIN cfgs THEN cfgs[appKey].requiredServices ELSE <<>>
    IN  [k \in DOMAIN cfgs \cup {appKey} |->
            IF k = appKey
            THEN [requiredServices |-> earlier \o config.requiredServices, lastUpdated |-> t]
            ELSE cfgs[k]]

\* setApplicationConfig; t is the clock reading
setApplicationConfig(cfgs, applicationId, applicationVersion, config, t) ==
    LET appKey == AppKey(applicationId, applicationVersion)
    IN  [k \in DOMAIN cfgs \cup {appKey} |->
            IF k = appKey
            THEN [requiredServices |-> config.requiredServices, lastUpdated |-> t]
            ELSE cfgs[k]]

\* An element whose isCompatible only says that the service is registered
AppServiceEntry_IgnoreRange(svcs, req) ==
    IF MapHas(svcs, req.serviceId)
    THEN LET service == MapGet(svcs, req.serviceId)
         IN  [id |-> service.id,
              name |-> service.name,
              version |-> service.version,
              endpoints |-> service.endpoints,
              dependencies |-> service.dependencies,
              registeredAt |-> service.registeredAt,
              lastUpdated |-> service.lastUpdated,
              requiredVersionRange |-> req.versionRange,
              isCompatible |-> TRUE]
    ELSE [requiredVersionRange |-> req.versionRange, isCompatible |-> FALSE]

\* One element of the configured list: the registration's fields, when there is one,
\* plus requiredVersionRange and isCompatible
AppServiceEntry(svcs, req) ==
    IF MapHas(svcs, req.serviceId)
    THEN LET service == MapGet(svcs, req.serviceId)
         IN  [id |-> service.id,
              name |-> service.name,
              version |-> service.version,
              endpoints |-> service.endpoints,
              dependencies |-> service.dependencies,
              registeredAt |-> service.registeredAt,
              lastUpdated |-> service.lastUpdated,
              requiredVersionRange |-> req.versionRange,
              isCompatible |-> semverSatisfies(service.version, req.versionRange)]
    ELSE [requiredVersionRange |-> req.versionRange, isCompatible |-> FALSE]

\* A filter that drops the elements built for services that are not registered
FilterBoolean_DropMissing(list) == SelectSeq(list, LAMBDA s : "id" \in DOMAIN s)

\* .filter(Boolean) over the mapped list: every element is an object, and objects are truthy
FilterBoolean(list) == SelectSeq(list, LAMBDA s : TRUE)

getApplicationServices(svcs, cfgs, applicationId, applicationVersion) ==
    LET appKey == AppKey(applicationId, applicationVersion)
    IN  IF appKey \notin DOMAIN cfgs
        THEN [application |-> applicationId,
              version |-> applicationVersion,
              services |-> getAllServices(svcs),
              message |-> "No specific application configuration found, showing all services"]
        ELSE LET requiredServices == cfgs[appKey].requiredServices
                 list == FilterBoolean([i \in 1..Len(requiredServices) |->
                                            AppServiceEntry(svcs, requiredServices[i])])
             IN  [application |-> applicationId,
                  version |-> applicationVersion,
                  services |-> list,
                  allCompatible |-> \A i \in 1..Len(list) : list[i].isCompatible]

\* s.id === serviceId on an element that may have no id
HasId(s, serviceId) == "id" \in DOMAIN s /\ s.id = serviceId

\* requiredService.requiredVersionRange, undefined on a plain registration
RequiredRangeOf(s) ==
    IF "requiredVersionRange" \in DOMAIN s THEN s.requiredVersionRange ELSE Undefined

\* The loop with an unknown service counting against allValid
RECURSIVE ValidateLoop_UnknownFails(_, _, _, _)
ValidateLoop_UnknownFails(list, serviceVersions, i, acc) ==
    IF i > Len(serviceVersions) THEN acc
    ELSE LET serviceId == serviceVersions[i].serviceId
             version == serviceVersions[i].version
             hits == SelectSeq(list, LAMBDA s : HasId(s, serviceId))
         IN  IF hits = <<>>
             THEN ValidateLoop_UnknownFails(list, serviceVersions, i + 1,
                     [acc EXCEPT !.allValid = FALSE, !.results = Append(@,
                         [serviceId |-> serviceId,
                          version |-> version,
                          status |-> "unknown",
                          message |-> "Service not required for this application version"])])
             ELSE LET requiredRange == RequiredRangeOf(hits[1])
                      isValid == semverSatisfies(version, requiredRange)
                  IN  ValidateLoop_UnknownFails(list, serviceVersions, i + 1,
                         [allValid |-> acc.allValid /\ isValid,
                          results |-> Append(acc.results,
                             [serviceId |-> serviceId,
                              version |-> version,
                              status |-> IF isValid THEN "valid" ELSE "invalid",
                              requiredRange |-> requiredRange,
                              message |-> IF isValid THEN "Version meets requirements"
                                                     ELSE "Version does not meet requirements"])])

\* The loop over Object.entries(serviceVersions), from entry i on
RECURSIVE ValidateLoop(_, _, _, _)
ValidateLoop(list, serviceVersions, i, acc) ==
    IF i > Len(serviceVersions) THEN acc
    ELSE LET serviceId == serviceVersions[i].serviceId
             version == serviceVersions[i].version
             hits == SelectSeq(list, LAMBDA s : HasId(s, serviceId))
         IN  IF hits = <<>>
             THEN ValidateLoop(list, serviceVersions, i + 1,
                     [acc EXCEPT !.results = Append(@,
                         [serviceId |-> serviceId,
                          version |-> version,
                          status |-> "unknown",
                          message |-> "Service not required for this application version"])])
             ELSE LET requiredRange == RequiredRangeOf(hits[1])
                      isValid == semverSatisfies(version, requiredRange)
                  IN  ValidateLoop(list, serviceVersions, i + 1,
                         [allValid |-> acc.allValid /\ isValid,
                          results |-> Append(acc.results,
                             [serviceId |-> serviceId,
                              version |-> version,
                              status |-> IF isValid THEN "valid" ELSE "invalid",
                              requiredRange |-> requiredRange,
                              message |-> IF isValid THEN "Version meets requirements"
                                                     ELSE "Version does not meet requirements"])])

validateApplicationServiceCombination(svcs, cfgs, applicationId, applicationVersion, serviceVersions) ==
    LET appServices == getApplicationServices(svcs, cfgs, applicationId, applicationVersion)
        out == ValidateLoop(appServices.services, serviceVersions, 1,
                            [allValid |-> TRUE, results |-> <<>>])
    IN  [application |-> applicationId,
         version |-> applicationVersion,
         allValid |-> out.allValid,
         results |-> out.results]

----------------------------------------------------------------------------
(* createApp: the catalog-based handlers                                   *)

\* !x on a string-valued request field
Falsy(x) == x = Undefined \/ x = ""

\* GET /app-version that also asks for the compatibility section
GetAppVersion_NeedsCompatibility(vd) ==
    IF ~vd.loaded \/ ~vd.hasApplication \/ ~vd.hasCompatibility
    THEN [status |-> 500, body |-> [error |-> "Version data not available"]]
    ELSE [status |-> 200,
          body |-> [name |-> vd.application.name,
                    version |-> vd.application.version,
                    releaseDate |-> vd.application.releaseDate,
                    description |-> OrDefault(vd.application.description, "null")]]

\* GET /app-version
GetAppVersion(vd) ==
    IF ~vd.loaded \/ ~vd.hasApplication
    THEN [status |-> 500, body |-> [error |-> "Version data not available"]]
    ELSE [status |-> 200,
          body |-> [name |-> vd.application.name,
                    version |-> vd.application.version,
                    releaseDate |-> vd.application.releaseDate,
                    description |-> OrDefault(vd.application.description, "null")]]

\* A find that compares the backend and frontend fields only
matchingCombo_BackendFrontendOnly(testedCombinations, query) ==
    LET hits == SelectSeq(testedCombinations,
                          LAMBDA combo : /\ combo.backend = query.backend
                                         /\ combo.frontend = query.frontend)
    IN  IF hits = <<>> THEN <<>> ELSE <<hits[1]>>

\* testedCombinations.find: the first entry equal to the query in all three fields
matchingCombo(testedCombinations, query) ==
    LET hits == SelectSeq(testedCombinations,
                          LAMBDA combo : /\ combo.backend = query.backend
                                         /\ combo.frontend = query.frontend
                                         /\ combo.scraper = query.scraper)
    IN  IF hits = <<>> THEN <<>> ELSE <<hits[1]>>

\* The two checks with the frontend warning pushed first
dependencyWarnings_FrontendFirst(dependencies, query) ==
    LET requiredScraperVersion == dependencies.backend.scraper
        requiredBackendVersion == dependencies.frontend.backend
        w1 == IF /\ ~Falsy(requiredScraperVersion)
                 /\ (Falsy(query.scraper) \/ ~semverSatisfies(query.scraper, requiredScraperVersion))
              THEN <<"Backend expects scraper " \o requiredScraperVersion \o ", got "
                     \o OrDefault(query.scraper, "no version")>>
              ELSE <<>>
        w2 == IF /\ ~Falsy(requiredBackendVersion)
                 /\ (Falsy(query.backend) \/ ~semverSatisfies(query.backend, requiredBackendVersion))
              THEN <<"Frontend expects backend " \o requiredBackendVersion \o ", got "
                     \o OrDefault(query.backend, "no version")>>
              ELSE <<>>
    IN  w2 \o w1

\* The two dependency-range checks, in the order they push their warnings
dependencyWarnings(dependencies, query) ==
    LET requiredScraperVersion == dependencies.backend.scraper
        requiredBackendVersion == dependencies.frontend.backend
        w1 == IF /\ ~Falsy(requiredScraperVersion)
                 /\ (Falsy(query.scraper) \/ ~semverSatisfies(query.scraper, requiredScraperVersion))
              THEN <<"Backend expects scraper " \o requiredScraperVersion \o ", got "
                     \o OrDefault(query.scraper, "no version")>>
              ELSE <<>>
        w2 == IF /\ ~Falsy(requiredBackendVersion)
                 /\ (Falsy(query.backend) \/ ~semverSatisfies(query.backend, requiredBackendVersion))
              THEN <<"Frontend expects backend " \o requiredBackendVersion \o ", got "
                     \o OrDefault(query.backend, "no version")>>
              ELSE <<>>
    IN  w1 \o w2

\* Any matching combination, verified or not, overrides the warnings
validAfterMatch_AnyMatch(valid, combo) == TRUE

\* valid after a matching combination was found: a verified one overrides the warnings
validAfterMatch(valid, combo) == IF ~Falsy(combo.verified) THEN TRUE ELSE valid

\* GET /validate-versions
GetValidateVersions(vd, query) ==
    IF ~vd.loaded \/ ~vd.hasCompatibility
    THEN [status |-> 500, body |-> [error |-> "Compatibility data not available"]]
    ELSE LET warnings == dependencyWarnings(vd.dependencies, query)
             found == matchingCombo(vd.testedCombinations, query)
             warned == warnings # <<>>
             status1 == IF warned THEN "warning" ELSE "compatible"
             message1 == IF warned THEN "Service versions may have compatibility issues"
                                   ELSE "Service versions appear compatible but untested"
             valid1 == ~warned
         IN  IF found = <<>>
             THEN [status |-> 200,
                   body |-> [valid |-> valid1, status |-> status1,
                             warnings |-> warnings, message |-> message1]]
             ELSE LET combo == found[1]
                      verified == ~Falsy(combo.verified)
                      status2 == IF verified THEN "tested" ELSE "compatible"
                      message2 == IF verified
                                  THEN "This service combination has been tested and verified"
                                  ELSE "Service versions appear compatible but untested"
                      valid2 == validAfterMatch(valid1, combo)
                  IN  IF verified
                      THEN [status |-> 200,
                            body |-> [valid |-> valid2, status |-> status2,
                                      warnings |-> warnings, message |-> message2,
                                      verified |-> combo.verified]]
                      ELSE [status |-> 200,
                            body |-> [valid |-> valid2, status |-> status2,
                                      warnings |-> warnings, message |-> message2]]

\* Object.entries(versionData.compatibility): the pair entries, and the testedCombinations
\* array under its own key (an array has no range, tested or testedDate property)
CompatibilityEntries(vd) ==
    LET keys == DOMAIN vd.pairs \cup (IF vd.hasTestedCombinations THEN {"testedCombinations"} ELSE {})
    IN  [k \in keys |->
            IF k \in DOMAIN vd.pairs THEN vd.pairs[k]
            ELSE [versionRangeA |-> Undefined, versionRangeB |-> Undefined,
                  tested |-> FALSE, testedDate |-> Undefined]]

\* createApp: the registry's matrix is seeded from versionData.compatibility
SeedMatrix(vd) ==
    IF vd.loaded /\ vd.hasCompatibility
    THEN setCompatibilityMatrix([isMap |-> FALSE, entries |-> CompatibilityEntries(vd)])
    ELSE <<>>

----------------------------------------------------------------------------
(* createApp: the service-registry handlers                                *)

BearerPrefix == "Bearer "

\* authHeader.startsWith('Bearer ')
StartsWithBearer(authHeader) ==
    Len(authHeader) >= Len(BearerPrefix) /\ SubSeq(authHeader, 1, Len(BearerPrefix)) = BearerPrefix

\* A comparison that stops at the length check
tokenMatches_LengthOnly(providedToken, expectedToken) ==
    Len(providedToken) = Len(expectedToken)

\* The comparison of the provided token with the expected one: same length and same bytes
tokenMatches(providedToken, expectedToken) ==
    /\ Len(providedToken) = Len(expectedToken)
    /\ providedToken = expectedToken

\* The checks POST /services/register makes before it reads the body: 0 when they pass
registerAuthStatus(expectedToken, authHeader) ==
    IF Falsy(expectedToken) THEN 503
    ELSE IF Falsy(authHeader) \/ ~StartsWithBearer(authHeader) THEN 401
    ELSE IF ~tokenMatches(SubSeq(authHeader, Len(BearerPrefix) + 1, Len(authHeader)), expectedToken)
    THEN 401
    ELSE 0

\* POST /services/register
PostServicesRegister(expectedToken, svcs, authHeader, body, t1, t2) ==
    LET auth == registerAuthStatus(expectedToken, authHeader)
    IN  IF auth # 0
        THEN [status |-> auth,
              error |-> IF auth = 503 THEN "Service registration is not configured"
                        ELSE IF Falsy(authHeader) \/ ~StartsWithBearer(authHeader)
                        THEN "Missing or invalid authorization header"
                        ELSE "Invalid service authentication token",
              services |-> svcs]
        ELSE IF Falsy(body.serviceId) \/ Falsy(body.name) \/ Falsy(body.version)
        THEN [status |-> 400,
              error |-> "Missing required fields: serviceId, name, version",
              services |-> svcs]
        ELSE LET r == registerService(svcs, body.serviceId,
                                      [name |-> body.name, version |-> body.version,
                                       endpoints |-> body.endpoints,
                                       dependencies |-> body.dependencies], t1, t2)
             IN  IF r.threw
                 THEN [status |-> 400, error |-> r.error, services |-> svcs]
                 ELSE [status |-> 201, error |-> "", services |-> r.services]

\* PUT /services/:serviceId/version answering 404 when the registry reports an unknown id
PutServiceVersion_NotFound404(svcs, serviceId, version, t) ==
    IF Falsy(version)
    THEN [status |-> 400, error |-> "Version is required", services |-> svcs]
    ELSE LET r == updateServiceVersion(svcs, serviceId, version, t)
         IN  IF r.threw
             THEN [status |-> IF MapHas(svcs, serviceId) THEN 400 ELSE 404,
                   error |-> r.error, services |-> svcs]
             ELSE [status |-> 200, error |-> "", services |-> r.services]

\* PUT /services/:serviceId/version
PutServiceVersion(svcs, serviceId, version, t) ==
    IF Falsy(version)
    THEN [status |-> 400, error |-> "Version is required", services |-> svcs]
    ELSE LET r == updateServiceVersion(svcs, serviceId, version, t)
         IN  IF r.threw
             THEN [status |-> 400, error |-> r.error, services |-> svcs]
             ELSE [status |-> 200, error |-> "", services |-> r.services]

\* GET /services/:serviceId
GetServiceById(svcs, serviceId) ==
    IF getService(svcs, serviceId) = <<>>
    THEN [status |-> 404, error |-> "Service not found", services |-> svcs]
    ELSE [status |-> 200, error |-> "", services |-> svcs]

\* DELETE /services/:serviceId
DeleteService(svcs, serviceId) ==
    LET r == unregisterService(svcs, serviceId)
    IN  IF ~r.ret
        THEN [status |-> 404, error |-> "Service not found", services |-> r.services]
        ELSE [status |-> 200, error |-> "", services |-> r.services]

\* GET /compatibility/versions/:serviceId
GetCompatibilityVersions(svcs, matrix, serviceId, dependentService, dependentVersion) ==
    IF Falsy(dependentService) \/ Falsy(dependentVersion)
    THEN [status |-> 400,
          error |-> "Missing required query parameters: dependentService, dependentVersion",
          services |-> svcs]
    ELSE LET r == getValidVersionsForService(svcs, matrix, serviceId,
                                             dependentService, dependentVersion)
         IN  IF r.threw
             THEN [status |-> 400, error |-> r.error, services |-> svcs]
             ELSE [status |-> 200, error |-> "", services |-> svcs]

----------------------------------------------------------------------------
(* Inputs the model draws from                                             *)

ServiceIds == {"backend", "frontend"}

ValidData ==
    { [name |-> "Backend Service", version |-> "1.0.0",
       endpoints |-> "http://localhost:3000", dependencies |-> "scraper>=0.5.0"],
      [name |-> "Service", version |-> "1.1.0",
       endpoints |-> Undefined, dependencies |-> Undefined] }

InvalidData ==
    { [name |-> "Backend Service", version |-> "invalid-version",
       endpoints |-> Undefined, dependencies |-> Undefined] }

UpdateVersions == {"2.0.0", "invalid-version", Undefined}

TestedEntry ==
    [versionRangeA |-> ">=1.0.0", versionRangeB |-> ">=1.0.0",
     tested |-> TRUE, testedDate |-> "2024-01-01"]

UntestedEntry ==
    [versionRangeA |-> ">=1.0.0", versionRangeB |-> ">=2.0.0",
     tested |-> FALSE, testedDate |-> Undefined]

NoMatrix == [k \in {} |-> TestedEntry]

RegistryMatrices ==
    { NoMatrix, [k \in {"backend:frontend"} |-> TestedEntry] }

AppIds == {"figure-collector"}

AppVersions == {"2.0.0"}

RegistryConfigs ==
    { [requiredServices |-> <<[serviceId |-> "backend", versionRange |-> ">=1.0.0"]>>],
      [requiredServices |-> <<[serviceId |-> "frontend", versionRange |-> ">=2.0.0"],
                              [serviceId |-> "backend", versionRange |-> "^1.0.0"]>>] }

\* The application section of a catalog, and what stands for a missing one
TestApplication ==
    [name |-> "test-app", version |-> "1.0.0", releaseDate |-> "09-Aug-2025",
     description |-> Undefined]

NoApplication ==
    [name |-> Undefined, version |-> Undefined, releaseDate |-> Undefined,
     description |-> Undefined]

\* The catalog of a registry built without createApp
NoCatalog ==
    [loaded |-> FALSE, hasApplication |-> FALSE, application |-> NoApplication,
     hasCompatibility |-> FALSE,
     hasTestedCombinations |-> FALSE, testedCombinations |-> <<>>, pairs |-> NoMatrix,
     dependencies |-> [backend |-> [scraper |-> Undefined], frontend |-> [backend |-> Undefined]]]

----------------------------------------------------------------------------
(* The registry's operations as steps                                      *)

\* new ServiceRegistry(): three empty maps
InitRegistry ==
    /\ services = <<>>
    /\ compatibilityMatrix = NoMatrix
    /\ applicationConfigs = [k \in {} |-> [requiredServices |-> <<>>, lastUpdated |-> 0]]

\* registerService(serviceId, serviceData); d is how far the clock moves between its two readings
RegisterService(serviceId, serviceData, d) ==
    LET t1 == clock
        t2 == clock + d
        r == registerService(services, serviceId, serviceData, t1, t2)
    IN  /\ t2 <= MaxClock
        /\ services' = r.services
        /\ clock' = IF r.threw THEN clock ELSE t2
        /\ last' = [op |-> "registerService", serviceId |-> serviceId, data |-> serviceData,
                    version |-> serviceData.version,
                    threw |-> r.threw, error |-> r.error,
                    before |-> getService(services, serviceId), t1 |-> t1, t2 |-> t2]
        /\ UNCHANGED <<compatibilityMatrix, applicationConfigs, versionData, authToken>>

\* updateServiceVersion(serviceId, version)
UpdateServiceVersion(serviceId, version) ==
    LET r == updateServiceVersion(services, serviceId, version, clock)
    IN  /\ services' = r.services
        /\ last' = [op |-> "updateServiceVersion", serviceId |-> serviceId,
                    version |-> version,
                    threw |-> r.threw, error |-> r.error,
                    before |-> getService(services, serviceId), t1 |-> clock]
        /\ UNCHANGED <<compatibilityMatrix, applicationConfigs, clock, versionData, authToken>>

\* unregisterService(serviceId)
UnregisterService(serviceId) ==
    LET r == unregisterService(services, serviceId)
    IN  /\ services' = r.services
        /\ last' = [op |-> "unregisterService", serviceId |-> serviceId, ret |-> r.ret]
        /\ UNCHANGED <<compatibilityMatrix, applicationConfigs, clock, versionData, authToken>>

\* setCompatibilityMatrix(matrix)
SetCompatibilityMatrix(matrix) ==
    /\ compatibilityMatrix' = setCompatibilityMatrix(matrix)
    /\ last' = [op |-> "setCompatibilityMatrix", matrix |-> matrix]
    /\ UNCHANGED <<services, applicationConfigs, clock, versionData, authToken>>

\* setApplicationConfig(applicationId, applicationVersion, config)
SetApplicationConfig(applicationId, applicationVersion, config) ==
    /\ applicationConfigs' = setApplicationConfig(applicationConfigs, applicationId,
                                                  applicationVersion, config, clock)
    /\ last' = [op |-> "setApplicationConfig", appKey |-> AppKey(applicationId, applicationVersion),
                applicationId |-> applicationId, applicationVersion |-> applicationVersion,
                config |-> config]
    /\ UNCHANGED <<services, compatibilityMatrix, clock, versionData, authToken>>

\* Time passes between calls
Tick ==
    /\ clock < MaxClock
    /\ clock' = clock + 1
    /\ last' = [op |-> "tick"]
    /\ UNCHANGED <<services, compatibilityMatrix, applicationConfigs, versionData, authToken>>

----------------------------------------------------------------------------
(* Spec: a ServiceRegistry driven through its own methods                  *)

Init ==
    /\ InitRegistry
    /\ clock = 0
    /\ versionData = NoCatalog
    /\ authToken = Undefined
    /\ last = [op |-> "none"]

DoRegister == \E id \in ServiceIds, data \in ValidData \cup InvalidData, d \in {0, 1} :
                 RegisterService(id, data, d)

DoUpdate == \E id \in ServiceIds, v \in UpdateVersions : UpdateServiceVersion(id, v)

DoUnregister == \E id \in ServiceIds : UnregisterService(id)

DoSetMatrix == \E m \in RegistryMatrices, isMap \in BOOLEAN :
                  SetCompatibilityMatrix([isMap |-> isMap, entries |-> m])

DoSetConfig == \E a \in AppIds, v \in AppVersions, c \in RegistryConfigs :
                  SetApplicationConfig(a, v, c)

Next ==
    \/ DoRegister
    \/ DoUpdate
    \/ DoUnregister
    \/ DoSetMatrix
    \/ DoSetConfig
    \/ Tick

Spec == Init /\ [][Next]_vars

----------------------------------------------------------------------------
(* Claims about the registry's own methods, checked under Spec             *)

RegistryUnchanged ==
    /\ services' = services
    /\ compatibilityMatrix' = compatibilityMatrix
    /\ applicationConfigs' = applicationConfigs

InvalidVersionCall(l) ==
    /\ l.op \in {"registerService", "updateServiceVersion"}
    /\ ~semverValid(l.version)

\* C3 as stated: a registerService or updateServiceVersion call whose version is not a
\* valid semantic version fails with an 'Invalid semantic version' error and leaves the
\* service table, the matrix and the application configs as they were.
C3_InvalidVersionAlwaysInvalidError ==
    [][InvalidVersionCall(last') =>
          /\ last'.threw
          /\ last'.error = "Invalid semantic version: " \o last'.version
          /\ RegistryUnchanged]_vars

\* C3 amended: such a call fails and leaves the three maps as they were; the error is
\* 'Invalid semantic version', except that updateServiceVersion on an id that is not
\* registered fails with 'Service <id> not found' instead.
C3_InvalidVersionRejected ==
    [][InvalidVersionCall(last') =>
          /\ last'.threw
          /\ last'.error = IF last'.op = "updateServiceVersion" /\ ~MapHas(services, last'.serviceId)
                           THEN "Service " \o last'.serviceId \o " not found"
                           ELSE "Invalid semantic version: " \o last'.version
          /\ RegistryUnchanged
          /\ getService(services', last'.serviceId) = last'.before]_vars

\* C3 witness: an invalid version was rejected for an id that is registered, and the
\* registration is still the one from before the call.
C3_Witness ==
    /\ InvalidVersionCall(last)
    /\ last.threw
    /\ last.before # <<>>
    /\ getService(services, last.serviceId) = last.before
    /\ DOMAIN compatibilityMatrix # {}
    /\ DOMAIN applicationConfigs # {}

ReRegistered(l) ==
    /\ l.op = "registerService"
    /\ ~l.threw
    /\ l.before # <<>>
    /\ l.before[1].version # l.data.version

\* C7: after a second successful registerService for an id, with another version, the
\* table holds exactly one registration for the id; it carries the name, version,
\* endpoints and dependencies of the second call, and its registeredAt and lastUpdated
\* are the two clock readings of the second call.
C7_ReRegisterReplaces ==
    ReRegistered(last) =>
        /\ Cardinality({i \in 1..Len(services) : services[i].key = last.serviceId}) = 1
        /\ getService(services, last.serviceId) =
              <<[id |-> last.serviceId,
                 name |-> last.data.name,
                 version |-> last.data.version,
                 endpoints |-> last.data.endpoints,
                 dependencies |-> IF last.data.dependencies = Undefined
                                  THEN "{}" ELSE last.data.dependencies,
                 registeredAt |-> last.t1,
                 lastUpdated |-> last.t2]>>
        /\ last.t1 >= last.before[1].lastUpdated
        /\ last.t2 >= last.t1

\* C7 witness: a re-registration with another version whose registeredAt is later than
\* the first registration's.
C7_Witness ==
    /\ ReRegistered(last)
    /\ MapGet(services, last.serviceId).registeredAt > last.before[1].registeredAt
    /\ MapGet(services, last.serviceId).name # last.before[1].name

UpdateSucceeded(l) == l.op = "updateServiceVersion" /\ ~l.threw

\* C10: a successful updateServiceVersion(id, v) sets the registration's version to v and
\* its lastUpdated to the time of the call, and leaves its id, name, endpoints,
\* dependencies and registeredAt, every other registration (and the order of the table),
\* the matrix and the application configs unchanged.
C10_UpdateFrame ==
    [][UpdateSucceeded(last') =>
          /\ MapHas(services, last'.serviceId)
          /\ MapHas(services', last'.serviceId)
          /\ LET old == MapGet(services, last'.serviceId)
                 new == MapGet(services', last'.serviceId)
             IN  /\ new.version = last'.version
                 /\ new.lastUpdated = clock
                 /\ new.id = old.id
                 /\ new.name = old.name
                 /\ new.endpoints = old.endpoints
                 /\ new.dependencies = old.dependencies
                 /\ new.registeredAt = old.registeredAt
          /\ Len(services') = Len(services)
          /\ \A i \in 1..Len(services) :
                /\ services'[i].key = services[i].key
                /\ services[i].key # last'.serviceId => services'[i] = services[i]
          /\ compatibilityMatrix' = compatibilityMatrix
          /\ applicationConfigs' = applicationConfigs]_vars

\* C10 witness: an update changed the version and moved lastUpdated forward while
\* another service was registered, with a matrix and a config in place.
C10_Witness ==
    /\ UpdateSucceeded(last)
    /\ Len(services) = 2
    /\ last.before[1].version # last.version
    /\ MapGet(services, last.serviceId).version = last.version
    /\ MapGet(services, last.serviceId).lastUpdated > last.before[1].lastUpdated
    /\ MapGet(services, last.serviceId).registeredAt = last.before[1].registeredAt
    /\ DOMAIN compatibilityMatrix # {}
    /\ DOMAIN applicationConfigs # {}

\* Some application config names serviceId as a required service
NamedInSomeConfig(serviceId) ==
    \E k \in DOMAIN applicationConfigs :
        \E i \in 1..Len(applicationConfigs[k].requiredServices) :
            applicationConfigs[k].requiredServices[i].serviceId = serviceId

\* C11: unregisterService(id) returns true exactly when id was registered at the time of
\* the call; afterwards getService(id) is absent and getAllServices does not contain id,
\* while every other registration (and their order), the matrix and the application
\* configs, those naming id included, are unchanged.
C11_UnregisterFrame ==
    [][last'.op = "unregisterService" =>
          /\ last'.ret = MapHas(services, last'.serviceId)
          /\ getService(services', last'.serviceId) = <<>>
          /\ \A i \in 1..Len(getAllServices(services')) :
                getAllServices(services')[i].id # last'.serviceId
          /\ getAllServices(services') =
                SelectSeq(getAllServices(services), LAMBDA s : s.id # last'.serviceId)
          /\ \A other \in ServiceIds \ {last'.serviceId} :
                getService(services', other) = getService(services, other)
          /\ compatibilityMatrix' = compatibilityMatrix
          /\ applicationConfigs' = applicationConfigs]_vars

\* C11 witness: a registered id was unregistered while another service stayed registered,
\* with a matrix in place and a config that names the removed id as required.
C11_Witness ==
    /\ last.op = "unregisterService"
    /\ last.ret
    /\ Len(services) = 1
    /\ services[1].key # last.serviceId
    /\ DOMAIN compatibilityMatrix # {}
    /\ NamedInSomeConfig(last.serviceId)

\* The ids of the list getAllServices returns, in its order
ListedIds(svcs) == [i \in 1..Len(getAllServices(svcs)) |-> getAllServices(svcs)[i].id]

\* C12: getAllServices lists exactly the registered services, each once, in insertion
\* order: an id that was absent and is registered goes to the end, re-registering or
\* updating an id that is still registered keeps every position, unregistering removes
\* the id and keeps the order of the rest (so registering it again puts it last), and a
\* failed call changes nothing.
C12_InsertionOrder ==
    [][/\ \A id \in ServiceIds :
             Cardinality({i \in 1..Len(ListedIds(services')) : ListedIds(services')[i] = id})
                = IF getService(services', id) = <<>> THEN 0 ELSE 1
       /\ \A i \in 1..Len(ListedIds(services')) :
             <<getAllServices(services')[i]>> = getService(services', ListedIds(services')[i])
       /\ ListedIds(services') =
             CASE last'.op = "registerService" /\ ~last'.threw /\ last'.before = <<>>
                      -> Append(ListedIds(services), last'.serviceId)
               [] last'.op = "unregisterService"
                      -> SelectSeq(ListedIds(services), LAMBDA id : id # last'.serviceId)
               [] OTHER -> ListedIds(services)]_vars

\* C12 witness: an id that is listed first, ahead of another service, was registered again
\* with another version and is still listed first.
C12_Witness ==
    /\ ReRegistered(last)
    /\ Len(services) = 2
    /\ ListedIds(services)[1] = last.serviceId
    /\ ListedIds(services)[2] # last.serviceId

\* C27: updateServiceVersion on a serviceId that is not registered fails with
\* 'Service <id> not found', also when the supplied version is malformed (the id is
\* checked before the version), and never creates a registration for that id.
C27_UpdateUnknownIdNotFound ==
    [][(last'.op = "updateServiceVersion" /\ ~MapHas(services, last'.serviceId)) =>
          /\ last'.threw
          /\ last'.error = "Service " \o last'.serviceId \o " not found"
          /\ ~MapHas(services', last'.serviceId)
          /\ services' = services]_vars

\* C27 witness: an update with a malformed version named an id that is not registered,
\* while another service is, and failed with the not-found error.
C27_Witness ==
    /\ last.op = "updateServiceVersion"
    /\ last.version = "invalid-version"
    /\ last.before = <<>>
    /\ last.error = "Service " \o last.serviceId \o " not found"
    /\ ~MapHas(services, last.serviceId)
    /\ Len(services) = 1

\* C28: in every reachable registry state each stored registration's id equals the key it
\* is stored under, its version is a valid semantic version, and its lastUpdated is not
\* earlier than its registeredAt.
C28_RegistrationsWellFormed ==
    \A i \in 1..Len(services) :
        /\ services[i].value.id = services[i].key
        /\ semverValid(services[i].value.version)
        /\ services[i].value.lastUpdated >= services[i].value.registeredAt

\* C28 witness: two registrations, one of them updated to another version after the clock
\* moved, so that its lastUpdated is later than its registeredAt.
C28_Witness ==
    /\ UpdateSucceeded(last)
    /\ Len(services) = 2
    /\ MapGet(services, last.serviceId).version = "2.0.0"
    /\ MapGet(services, last.serviceId).lastUpdated > MapGet(services, last.serviceId).registeredAt
    /\ DOMAIN compatibilityMatrix # {}

----------------------------------------------------------------------------
(* SpecCompat: the pairwise matrix and the two queries that read it        *)

CompatRanges == {Undefined, ">=1.0.0", ">=2.0.0"}

CompatEntries ==
    { [versionRangeA |-> a, versionRangeB |-> b, tested |-> t.tested, testedDate |-> t.testedDate] :
        a \in CompatRanges, b \in CompatRanges,
        t \in { [tested |-> TRUE, testedDate |-> "2024-01-01"],
                [tested |-> FALSE, testedDate |-> Undefined] } }

CompatKeys == {"backend:frontend", "frontend:backend"}

\* No entry, one entry under either key, or an entry under both keys
CompatMatrices ==
    {NoMatrix}
    \cup UNION { [{k} -> CompatEntries] : k \in CompatKeys }
    \cup [CompatKeys -> {TestedEntry, UntestedEntry}]

CompatData ==
    { [name |-> "Service", version |-> v, endpoints |-> Undefined, dependencies |-> Undefined] :
        v \in {"1.0.0", "2.0.0"} }

QueryVersions == {"0.9.0", "1.0.0", "2.0.0"}

\* Service ids asked about; "scraper" is never registered and never in a matrix key
CompatQueryIds == ServiceIds \cup {"scraper"}

\* validateCompatibility(serviceA, versionA, serviceB, versionB)
ValidateCompatibility(serviceA, versionA, serviceB, versionB) ==
    /\ last' = [op |-> "validateCompatibility",
                serviceA |-> serviceA, versionA |-> versionA,
                serviceB |-> serviceB, versionB |-> versionB,
                result |-> validateCompatibility(compatibilityMatrix, serviceA, versionA,
                                                 serviceB, versionB)]
    /\ UNCHANGED <<services, compatibilityMatrix, applicationConfigs, clock, versionData, authToken>>

\* getValidVersionsForService(targetService, dependentService, dependentVersion)
GetValidVersionsForService(targetService, dependentService, dependentVersion) ==
    LET r == getValidVersionsForService(services, compatibilityMatrix, targetService,
                                        dependentService, dependentVersion)
    IN  /\ last' = [op |-> "getValidVersionsForService",
                    targetService |-> targetService, dependentService |-> dependentService,
                    dependentVersion |-> dependentVersion,
                    threw |-> r.threw, error |-> r.error, ret |-> r.ret]
        /\ UNCHANGED <<services, compatibilityMatrix, applicationConfigs, clock, versionData, authToken>>

CompatRegister == \E id \in ServiceIds, data \in CompatData : RegisterService(id, data, 0)

CompatUnregister == \E id \in ServiceIds : UnregisterService(id)

CompatSetMatrix == \E m \in CompatMatrices, isMap \in BOOLEAN :
                      SetCompatibilityMatrix([isMap |-> isMap, entries |-> m])

CompatValidate == \E a \in CompatQueryIds, b \in CompatQueryIds,
                      va \in QueryVersions, vb \in QueryVersions :
                     ValidateCompatibility(a, va, b, vb)

CompatValidVersions == \E t \in CompatQueryIds, d \in CompatQueryIds, v \in QueryVersions :
                          GetValidVersionsForService(t, d, v)

NextCompat ==
    \/ CompatRegister
    \/ CompatUnregister
    \/ CompatSetMatrix
    \/ CompatValidate
    \/ CompatValidVersions

SpecCompat == Init /\ [][NextCompat]_vars

\* C1 as stated: validateCompatibility(A, vA, B, vB) and validateCompatibility(B, vB, A, vA)
\* return the same compatible flag and the same status, for every matrix.
C1_Symmetric ==
    last.op = "validateCompatibility" =>
        LET swapped == validateCompatibility(compatibilityMatrix, last.serviceB, last.versionB,
                                             last.serviceA, last.versionA)
        IN  /\ last.result.compatible = swapped.compatible
            /\ last.result.status = swapped.status

\* The entries the current matrix holds for the pair: under 'A:B', else under 'B:A'
PairEntry(serviceA, serviceB) ==
    IF (serviceA \o ":" \o serviceB) \in DOMAIN compatibilityMatrix
    THEN <<compatibilityMatrix[serviceA \o ":" \o serviceB]>>
    ELSE IF (serviceB \o ":" \o serviceA) \in DOMAIN compatibilityMatrix
    THEN <<compatibilityMatrix[serviceB \o ":" \o serviceA]>>
    ELSE <<>>

\* A range of an entry, an absent one counting as '*'
RangeOrStar(r) == IF r = Undefined THEN "*" ELSE r

ValidatedWithEntry(l) ==
    /\ l.op = "validateCompatibility"
    /\ PairEntry(l.serviceA, l.serviceB) # <<>>

\* vA fails the entry's versionRangeA or vB fails its versionRangeB
FailsARange(l) ==
    LET entry == PairEntry(l.serviceA, l.serviceB)[1]
    IN  \/ ~semverSatisfies(l.versionA, RangeOrStar(entry.versionRangeA))
        \/ ~semverSatisfies(l.versionB, RangeOrStar(entry.versionRangeB))

C14_CompatibleIsTestedOrCompatible ==
    last.op = "validateCompatibility" =>
        /\ last.result.compatible => last.result.status \in {"tested", "compatible"}
        /\ (ValidatedWithEntry(last) /\ ~FailsARange(last)) =>
              LET entry == PairEntry(last.serviceA, last.serviceB)[1]
              IN  /\ last.result.compatible
                  /\ last.result.status = IF entry.tested THEN "tested" ELSE "compatible"
                  /\ entry.tested => last.result.testedDate = entry.testedDate

\* C14 witness: a tested entry without a versionRangeA, both versions passing.
C14_Witness ==
    /\ ValidatedWithEntry(last)
    /\ ~FailsARange(last)
    /\ PairEntry(last.serviceA, last.serviceB)[1].tested
    /\ PairEntry(last.serviceA, last.serviceB)[1].versionRangeA = Undefined
    /\ last.result.status = "tested"
    /\ last.result.testedDate = "2024-01-01"

\* C15: if the matrix has no entry under 'A:B' and none under 'B:A',
\* validateCompatibility(A, vA, B, vB) returns compatible=false and status 'unknown' for
\* all versions, with no requirements and no testedDate, whichever services are registered.
C15_NoEntryIsUnknown ==
    (last.op = "validateCompatibility" /\ PairEntry(last.serviceA, last.serviceB) = <<>>) =>
        /\ ~last.result.compatible
        /\ last.result.status = "unknown"
        /\ DOMAIN last.result = {"compatible", "status", "message"}

\* C15 witness: both services of the query are registered and the matrix holds an entry,
\* but for another pair.
C15_Witness ==
    /\ last.op = "validateCompatibility"
    /\ PairEntry(last.serviceA, last.serviceB) = <<>>
    /\ DOMAIN compatibilityMatrix # {}
    /\ MapHas(services, last.serviceA)
    /\ MapHas(services, last.serviceB)
    /\ last.result.status = "unknown"

\* C19: getValidVersionsForService(target, dependent, v) fails with
\* 'Service <target> not found' whenever target is not registered, whatever the matrix
\* holds; with target registered and no entry under 'target:dependent' nor
\* 'dependent:target' it returns validVersions = [target's registered version] with the
\* 'No compatibility constraints defined' message and no compatibleRange.
C19_UnknownTargetOrNoConstraint ==
    last.op = "getValidVersionsForService" =>
        IF ~MapHas(services, last.targetService)
        THEN /\ last.threw
             /\ last.error = "Service " \o last.targetService \o " not found"
             /\ last.ret = <<>>
        ELSE /\ ~last.threw
             /\ PairEntry(last.targetService, last.dependentService) = <<>> =>
                   last.ret = <<[service |-> last.targetService,
                                 validVersions |-> <<MapGet(services, last.targetService).version>>,
                                 message |-> "No compatibility constraints defined"]>>

\* C19 witness: the target is not registered, the matrix holds an entry for the pair and
\* the dependent is registered, and the call failed.
C19_Witness ==
    /\ last.op = "getValidVersionsForService"
    /\ ~MapHas(services, last.targetService)
    /\ MapHas(services, last.dependentService)
    /\ PairEntry(last.targetService, last.dependentService) # <<>>
    /\ last.threw

EntryFound(l) ==
    /\ l.op = "getValidVersionsForService"
    /\ ~l.threw
    /\ MatrixLookup(compatibilityMatrix, MatrixKey(l.targetService, l.dependentService),
                    MatrixKey(l.dependentService, l.targetService)) # <<>>

EntryOf(l) ==
    MatrixLookup(compatibilityMatrix, MatrixKey(l.targetService, l.dependentService),
                 MatrixKey(l.dependentService, l.targetService))[1]

\* What C6 expects of the answer, given whether the dependent-version check applies
ValidVersionsAnswer(l, checked) ==
    LET entry == EntryOf(l)
        current == MapGet(services, l.targetService).version
        rangeA == OrDefault(entry.versionRangeA, "*")
        rangeB == OrDefault(entry.versionRangeB, "*")
    IN  IF \/ checked /\ ~semverSatisfies(l.dependentVersion, rangeB)
           \/ ~semverSatisfies(current, rangeA)
        THEN l.ret[1].validVersions = <<>>
        ELSE /\ l.ret[1].validVersions = <<current>>
             /\ l.ret[1].compatibleRange = rangeA

\* C6 as stated: with target registered and a matrix entry for the pair, validVersions is
\* empty if dependentVersion fails versionRangeB or target's registered version fails
\* versionRangeA, and otherwise is [target's version] with compatibleRange = versionRangeA;
\* the dependent-version check applies whether the dependent is registered or not.
C6_DependentAlwaysChecked ==
    EntryFound(last) => ValidVersionsAnswer(last, TRUE)

\* C6 amended: the same, except that the dependent-version check applies only when the
\* dependent service is registered; for an unregistered dependent only target's registered
\* version is checked against versionRangeA.
C6_DependentCheckedIfRegistered ==
    EntryFound(last) => ValidVersionsAnswer(last, MapHas(services, last.dependentService))

\* C6 witness: the dependent is not registered and its version fails versionRangeB, and
\* the answer still lists target's version.
C6_Witness ==
    /\ EntryFound(last)
    /\ ~MapHas(services, last.dependentService)
    /\ ~semverSatisfies(last.dependentVersion, OrDefault(EntryOf(last).versionRangeB, "*"))
    /\ last.ret[1].validVersions = <<MapGet(services, last.targetService).version>>

----------------------------------------------------------------------------
(* SpecApp: application configs and the two queries that read them         *)

AppRanges == {">=1.0.0", ">=2.0.0"}

AppRequirements == [serviceId : ServiceIds, versionRange : AppRanges]

\* No required service, one, or two with different ids in either order
AppConfigs ==
    { [requiredServices |-> rs] :
        rs \in {<<>>}
               \cup { <<r>> : r \in AppRequirements }
               \cup { rr \in AppRequirements \X AppRequirements :
                         rr[1].serviceId # rr[2].serviceId } }

\* Application versions asked about; only ConfiguredVersion ever gets a config
AppQueryVersions == {"2.0.0", "1.0.0"}

ConfiguredVersion == "2.0.0"

SuppliedIds == ServiceIds \cup {"unknown"}

SuppliedVersions == {"1.0.0", "2.0.0"}

SuppliedPairs == [serviceId : SuppliedIds, version : SuppliedVersions]

\* Object.entries(serviceVersions): up to two pairs with different keys
ServiceVersionLists ==
    {<<>>}
    \cup { <<p>> : p \in SuppliedPairs }
    \cup { pp \in SuppliedPairs \X SuppliedPairs : pp[1].serviceId # pp[2].serviceId }

\* getApplicationServices(applicationId, applicationVersion)
GetApplicationServices(applicationId, applicationVersion) ==
    /\ last' = [op |-> "getApplicationServices",
                applicationId |-> applicationId, applicationVersion |-> applicationVersion,
                result |-> getApplicationServices(services, applicationConfigs,
                                                  applicationId, applicationVersion)]
    /\ UNCHANGED <<services, compatibilityMatrix, applicationConfigs, clock, versionData, authToken>>

\* validateApplicationServiceCombination(applicationId, applicationVersion, serviceVersions)
ValidateApplicationServiceCombination(applicationId, applicationVersion, serviceVersions) ==
    /\ last' = [op |-> "validateApplicationServiceCombination",
                applicationId |-> applicationId, applicationVersion |-> applicationVersion,
                serviceVersions |-> serviceVersions,
                result |-> validateApplicationServiceCombination(services, applicationConfigs,
                              applicationId, applicationVersion, serviceVersions)]
    /\ UNCHANGED <<services, compatibilityMatrix, applicationConfigs, clock, versionData, authToken>>

AppRegister == \E id \in ServiceIds, data \in CompatData : RegisterService(id, data, 0)

AppUnregister == \E id \in ServiceIds : UnregisterService(id)

AppSetConfig == \E a \in AppIds, c \in AppConfigs : SetApplicationConfig(a, ConfiguredVersion, c)

AppGetServices == \E a \in AppIds, v \in AppQueryVersions : GetApplicationServices(a, v)

AppUpdate == \E id \in ServiceIds, v \in SuppliedVersions : UpdateServiceVersion(id, v)

AppValidate == \E a \in AppIds, v \in AppQueryVersions, sv \in ServiceVersionLists :
                  ValidateApplicationServiceCombination(a, v, sv)

NextApp ==
    \/ AppRegister
    \/ AppUpdate
    \/ AppUnregister
    \/ AppSetConfig
    \/ AppGetServices
    \/ AppValidate

SpecApp == Init /\ [][NextApp]_vars

\* The call named by l was made for an (appId, version) that has a config
Configured(l) == AppKey(l.applicationId, l.applicationVersion) \in DOMAIN applicationConfigs

RequiredOf(l) == applicationConfigs[AppKey(l.applicationId, l.applicationVersion)].requiredServices

\* C4 as stated: for a configured (appId, version), getApplicationServices omits every
\* required service that is not registered; when none of the required services is
\* registered the list is empty and allCompatible is true.
C4_MissingDropped ==
    (last.op = "getApplicationServices" /\ Configured(last)) =>
        LET req == RequiredOf(last)
            list == last.result.services
        IN  /\ \A i \in 1..Len(list) : "id" \in DOMAIN list[i] /\ MapHas(services, list[i].id)
            /\ (\A j \in 1..Len(req) : ~MapHas(services, req[j].serviceId)) =>
                   (list = <<>> /\ last.result.allCompatible)

\* C4 amended: for a configured (appId, version), getApplicationServices returns one
\* element per required service, in config order; the element of a required service that
\* is not registered has no id or version, carries the configured requiredVersionRange and
\* has isCompatible false, so allCompatible is false whenever a required service is not
\* registered.
C4_MissingKeptIncompatible ==
    (last.op = "getApplicationServices" /\ Configured(last)) =>
        LET req == RequiredOf(last)
            list == last.result.services
        IN  /\ Len(list) = Len(req)
            /\ \A j \in 1..Len(req) :
                  IF MapHas(services, req[j].serviceId)
                  THEN HasId(list[j], req[j].serviceId)
                  ELSE list[j] = [requiredVersionRange |-> req[j].versionRange,
                                  isCompatible |-> FALSE]
            /\ (\E j \in 1..Len(req) : ~MapHas(services, req[j].serviceId)) =>
                   ~last.result.allCompatible

\* C4 witness: a configured query with two required services, none of them registered.
C4_Witness ==
    /\ last.op = "getApplicationServices"
    /\ Configured(last)
    /\ Len(RequiredOf(last)) = 2
    /\ services = <<>>
    /\ Len(last.result.services) = 2
    /\ ~last.result.allCompatible

\* The range the config of the call gives serviceId, if it names it
NamedRange(l, serviceId) ==
    LET hits == SelectSeq(RequiredOf(l), LAMBDA r : r.serviceId = serviceId)
    IN  IF hits = <<>> THEN <<>> ELSE <<hits[1].versionRange>>

\* C5 as stated: a supplied serviceId named in requiredServices is reported 'valid' if the
\* supplied version satisfies the configured range and 'invalid' otherwise, whether or not
\* the service is registered; a supplied serviceId not named there is reported 'unknown'.
C5_RequiredNeverUnknown ==
    (last.op = "validateApplicationServiceCombination" /\ Configured(last)) =>
        \A i \in 1..Len(last.serviceVersions) :
            LET supplied == last.serviceVersions[i]
                named == NamedRange(last, supplied.serviceId)
                status == last.result.results[i].status
            IN  IF named = <<>>
                THEN status = "unknown"
                ELSE status = IF semverSatisfies(supplied.version, named[1])
                              THEN "valid" ELSE "invalid"

\* C16: for a configured (appId, version), getApplicationServices returns only services
\* named in requiredServices, in config order, each with requiredVersionRange equal to the
\* configured range and isCompatible true exactly when the version the service is
\* registered with at the time of the query satisfies that range; allCompatible is the
\* conjunction of the isCompatible flags of the returned elements.
C16_ConfiguredListAnnotated ==
    (last.op = "getApplicationServices" /\ Configured(last)) =>
        LET req == RequiredOf(last)
            list == last.result.services
        IN  /\ Len(list) = Len(req)
            /\ \A j \in 1..Len(list) :
                  /\ "id" \in DOMAIN list[j] =>
                        /\ list[j].id = req[j].serviceId
                        /\ MapHas(services, list[j].id)
                        /\ list[j].version = MapGet(services, list[j].id).version
                  /\ list[j].requiredVersionRange = req[j].versionRange
                  /\ list[j].isCompatible <=>
                        /\ MapHas(services, req[j].serviceId)
                        /\ semverSatisfies(MapGet(services, req[j].serviceId).version,
                                           req[j].versionRange)
            /\ last.result.allCompatible <=> \A j \in 1..Len(list) : list[j].isCompatible

\* C16 witness: two required services, both registered, the first one's version inside
\* its range and the second one's outside, so allCompatible is false.
C16_Witness ==
    /\ last.op = "getApplicationServices"
    /\ Configured(last)
    /\ Len(last.result.services) = 2
    /\ Len(services) = 2
    /\ last.result.services[1].isCompatible
    /\ ~last.result.services[2].isCompatible
    /\ ~last.result.allCompatible

\* No config is stored for the (appId, version) of the call
Unconfigured(l) ==
    (l.applicationId \o ":" \o l.applicationVersion) \notin DOMAIN applicationConfigs

C18_AllValidIffNoInvalid ==
    last.op = "validateApplicationServiceCombination" =>
        LET results == last.result.results
        IN  /\ Len(results) = Len(last.serviceVersions)
            /\ \A i \in 1..Len(results) :
                  /\ results[i].serviceId = last.serviceVersions[i].serviceId
                  /\ results[i].version = last.serviceVersions[i].version
                  /\ results[i].status \in {"valid", "invalid", "unknown"}
            /\ ~last.result.allValid <=> \E i \in 1..Len(results) : results[i].status = "invalid"

\* C18 witness: two supplied pairs, one reported 'unknown' and one 'valid', and allValid
\* is true.
C18_Witness ==
    /\ last.op = "validateApplicationServiceCombination"
    /\ Len(last.result.results) = 2
    /\ last.result.results[1].status = "unknown"
    /\ last.result.results[2].status = "valid"
    /\ last.result.allValid

\* C26 as stated: when no application config exists for (appId, version),
\* validateApplicationServiceCombination reports every supplied service as 'unknown'
\* ('not required for this application version') and returns allValid = true, whichever
\* services are registered.
C26_UnconfiguredAllUnknown ==
    (last.op = "validateApplicationServiceCombination" /\ Unconfigured(last)) =>
        /\ last.result.allValid
        /\ \A i \in 1..Len(last.result.results) :
              /\ last.result.results[i].status = "unknown"
              /\ last.result.results[i].message = "Service not required for this application version"

----------------------------------------------------------------------------
(* SpecCatalog: createApp over a catalog, and GET /validate-versions       *)

\* Longest testedCombinations list explored
MaxCombos == 2

ComboEntries ==
    { [backend |-> c[1], frontend |-> c[2], scraper |-> c[3], verified |-> d] :
        c \in { <<"1.0.0", "1.0.0", "1.0.0">>, <<"2.0.0", "1.0.0", "2.0.0">> },
        d \in { Undefined, "09-Aug-2025" } }

ComboLists == UNION { [1..n -> ComboEntries] : n \in 0..MaxCombos }

CatalogDependencies ==
    { [backend |-> [scraper |-> s], frontend |-> [backend |-> b]] :
        s \in { Undefined, "^1.0.0" }, b \in { Undefined, ">=2.0.0" } }

\* Catalogs with a compatibility section, and one without
Catalogs ==
    { [loaded |-> TRUE, hasApplication |-> TRUE, application |-> TestApplication,
       hasCompatibility |-> TRUE,
       hasTestedCombinations |-> TRUE, testedCombinations |-> cs, pairs |-> NoMatrix,
       dependencies |-> ds] : cs \in ComboLists, ds \in CatalogDependencies }
    \cup { [NoCatalog EXCEPT !.loaded = TRUE, !.hasApplication = TRUE,
                                 !.application = TestApplication] }
    \cup { [NoCatalog EXCEPT !.loaded = TRUE, !.hasCompatibility = TRUE,
                             !.hasTestedCombinations = TRUE,
                             !.testedCombinations = <<cs>>] : cs \in ComboEntries }
    \cup { [NoCatalog EXCEPT !.loaded = TRUE], NoCatalog }

QueryFields == { Undefined, "", "1.0.0", "2.0.0" }

Queries == [backend : QueryFields, frontend : QueryFields, scraper : QueryFields]

\* createApp(versionData): a fresh registry, its matrix seeded from the catalog
InitApp ==
    /\ services = <<>>
    /\ compatibilityMatrix = SeedMatrix(versionData)
    /\ applicationConfigs = [k \in {} |-> [requiredServices |-> <<>>, lastUpdated |-> 0]]
    /\ clock = 0
    /\ last = [op |-> "none"]

\* A handler that takes a backend version the query leaves out from the service table
ValidateVersionsRequest_ReadsRegistry(query) ==
    LET filled == IF Falsy(query.backend) /\ MapHas(services, "backend")
                  THEN [query EXCEPT !.backend = MapGet(services, "backend").version]
                  ELSE query
    IN  /\ last' = [op |-> "GET /validate-versions", query |-> query,
                    response |-> GetValidateVersions(versionData, filled)]
        /\ UNCHANGED <<services, compatibilityMatrix, applicationConfigs, clock, versionData, authToken>>

\* A request GET /validate-versions?backend=..&frontend=..&scraper=..
ValidateVersionsRequest(query) ==
    /\ last' = [op |-> "GET /validate-versions", query |-> query,
                response |-> GetValidateVersions(versionData, query)]
    /\ UNCHANGED <<services, compatibilityMatrix, applicationConfigs, clock, versionData, authToken>>

\* A request GET /app-version
AppVersionRequest ==
    /\ last' = [op |-> "GET /app-version", response |-> GetAppVersion(versionData)]
    /\ UNCHANGED <<services, compatibilityMatrix, applicationConfigs, clock, versionData, authToken>>

InitCatalog ==
    /\ versionData \in Catalogs
    /\ authToken = Undefined
    /\ InitApp

CatalogValidate == \E q \in Queries : ValidateVersionsRequest(q)

NextCatalog ==
    \/ CatalogValidate
    \/ AppVersionRequest

SpecCatalog == InitCatalog /\ [][NextCatalog]_vars

\* The catalog lists a combination equal to the query in all three fields, with a verified date
HasVerifiedMatch(vd, query) ==
    \E i \in 1..Len(vd.testedCombinations) :
        LET combo == vd.testedCombinations[i]
        IN  /\ combo.backend = query.backend
            /\ combo.frontend = query.frontend
            /\ combo.scraper = query.scraper
            /\ ~Falsy(combo.verified)

\* C2 as stated: for every catalog whose testedCombinations contains an entry equal to the
\* query (X, Y, Z) with a verified date, GET /validate-versions returns status "tested" and
\* valid=true, whatever warnings the dependency-range check produces.
C2_VerifiedMatchIsTested ==
    (/\ last.op = "GET /validate-versions"
     /\ versionData.hasCompatibility
     /\ HasVerifiedMatch(versionData, last.query)) =>
        /\ last.response.status = 200
        /\ last.response.body.status = "tested"
        /\ last.response.body.valid

\* GET /validate-versions was answered from a catalog with a compatibility section
Validated(l) == l.op = "GET /validate-versions" /\ l.response.status = 200

\* A supplied version is missing or empty
NotSupplied(v) == v = Undefined \/ v = ""

\* The warning C22 expects for one dependency edge, as a list of zero or one string
EdgeWarning(consumer, required, range, supplied) ==
    IF range # Undefined /\ range # ""
       /\ (NotSupplied(supplied) \/ ~semverSatisfies(supplied, range))
    THEN <<consumer \o " expects " \o required \o " " \o range \o ", got "
           \o (IF NotSupplied(supplied) THEN "no version" ELSE supplied)>>
    ELSE <<>>

\* C22: the warnings list holds 'Backend expects scraper <range>, got <value or no
\* version>' exactly when dependencies.backend.scraper is declared and the supplied scraper
\* version is missing, empty or outside the range, then 'Frontend expects backend <range>,
\* got <value or no version>' exactly when dependencies.frontend.backend is declared and
\* the supplied backend version is missing, empty or outside it; with no declared edge the
\* list is empty for every query.
C22_WarningsPerEdge ==
    Validated(last) =>
        last.response.body.warnings =
            EdgeWarning("Backend", "scraper", versionData.dependencies.backend.scraper,
                        last.query.scraper)
            \o EdgeWarning("Frontend", "backend", versionData.dependencies.frontend.backend,
                           last.query.backend)

\* C22 witness: both edges are declared, the scraper version is missing and the backend
\* version is outside its range, and the two warnings come in that order.
C22_Witness ==
    /\ Validated(last)
    /\ last.query.scraper = Undefined
    /\ last.query.backend = "1.0.0"
    /\ last.response.body.warnings =
          <<"Backend expects scraper ^1.0.0, got no version",
            "Frontend expects backend >=2.0.0, got 1.0.0">>

\* The positions of the tested combinations equal to the query in all three fields
ExactMatches(vd, query) ==
    { i \in 1..Len(vd.testedCombinations) :
        /\ vd.testedCombinations[i].backend = query.backend
        /\ vd.testedCombinations[i].frontend = query.frontend
        /\ vd.testedCombinations[i].scraper = query.scraper }

\* C23: when no tested combination equals the query in all three fields, the answer is
\* status 'warning' and valid=false if a warning was produced, and status 'compatible' and
\* valid=true with the 'appear compatible but untested' message otherwise; a query that
\* matches a combination in only some fields is never reported 'tested'.
C23_NoMatchOutcome ==
    (Validated(last) /\ ExactMatches(versionData, last.query) = {}) =>
        /\ last.response.body.status # "tested"
        /\ "verified" \notin DOMAIN last.response.body
        /\ IF last.response.body.warnings # <<>>
           THEN /\ last.response.body.status = "warning"
                /\ ~last.response.body.valid
                /\ last.response.body.message = "Service versions may have compatibility issues"
           ELSE /\ last.response.body.status = "compatible"
                /\ last.response.body.valid
                /\ last.response.body.message = "Service versions appear compatible but untested"

\* C23 witness: the query equals a verified combination in backend and frontend but not in
\* scraper, no warning was produced, and the answer is 'compatible'.
C23_Witness ==
    /\ Validated(last)
    /\ ExactMatches(versionData, last.query) = {}
    /\ \E i \in 1..Len(versionData.testedCombinations) :
          /\ versionData.testedCombinations[i].backend = last.query.backend
          /\ versionData.testedCombinations[i].frontend = last.query.frontend
          /\ versionData.testedCombinations[i].verified # Undefined
    /\ last.response.body.warnings = <<>>
    /\ last.response.body.status = "compatible"

\* What C24 says of the answer for an unverified match
UnverifiedMatchAnswer(l) ==
    /\ l.response.body.status = "compatible"
    /\ l.response.body.valid = (l.response.body.warnings = <<>>)
    /\ "verified" \notin DOMAIN l.response.body
    /\ l.response.body.warnings =
          EdgeWarning("Backend", "scraper", versionData.dependencies.backend.scraper, l.query.scraper)
          \o EdgeWarning("Frontend", "backend", versionData.dependencies.frontend.backend,
                         l.query.backend)

\* C24 as stated: when the query equals a tested combination that carries no verified
\* date, the answer is status 'compatible', valid keeps the value set by the warning check,
\* the response has no verified field, and the warnings list is still returned.
C24_UnverifiedMatchIsCompatible ==
    (/\ Validated(last)
     /\ \E i \in ExactMatches(versionData, last.query) :
           Falsy(versionData.testedCombinations[i].verified)) =>
        UnverifiedMatchAnswer(last)

\* The first tested combination equal to the query carries no verified date
FirstMatchUnverified(vd, query) ==
    /\ ExactMatches(vd, query) # {}
    /\ LET first == CHOOSE i \in ExactMatches(vd, query) :
                        \A j \in ExactMatches(vd, query) : i <= j
       IN  Falsy(vd.testedCombinations[first].verified)

\* C24 amended: the same answer, when the first tested combination equal to the query
\* carries no verified date, whatever later equal combinations carry.
C24_FirstMatchUnverified ==
    (Validated(last) /\ FirstMatchUnverified(versionData, last.query)) =>
        UnverifiedMatchAnswer(last)

\* C24 witness: the first match is unverified, a warning was produced, and the answer is
\* 'compatible' with valid=false.
C24_Witness ==
    /\ Validated(last)
    /\ FirstMatchUnverified(versionData, last.query)
    /\ last.response.body.warnings # <<>>
    /\ last.response.body.status = "compatible"
    /\ ~last.response.body.valid

\* C25: without a compatibility section every GET /validate-versions is answered with the
\* server error 'Compatibility data not available' and never with a validation outcome;
\* without an application section GET /app-version is answered with the server error
\* 'Version data not available'; each operation succeeds when its own section is there,
\* whether or not the other one is.
C25_MissingSectionErrors ==
    /\ last.op = "GET /validate-versions" =>
          IF versionData.loaded /\ versionData.hasCompatibility
          THEN /\ last.response.status = 200
               /\ {"valid", "status", "warnings", "message"} \subseteq DOMAIN last.response.body
          ELSE /\ last.response.status = 500
               /\ last.response.body = [error |-> "Compatibility data not available"]
    /\ last.op = "GET /app-version" =>
          IF versionData.loaded /\ versionData.hasApplication
          THEN /\ last.response.status = 200
               /\ last.response.body.name = versionData.application.name
               /\ last.response.body.version = versionData.application.version
          ELSE /\ last.response.status = 500
               /\ last.response.body = [error |-> "Version data not available"]

\* C25 witness: the catalog has an application section and no compatibility section, and
\* GET /app-version was answered with the application's name and version.
C25_Witness ==
    /\ last.op = "GET /app-version"
    /\ versionData.hasApplication
    /\ ~versionData.hasCompatibility
    /\ last.response.status = 200
    /\ last.response.body.name = "test-app"

\* A validation answered from a catalog that has no application section
ValidatedWithoutApplication ==
    /\ Validated(last)
    /\ ~versionData.hasApplication

----------------------------------------------------------------------------
(* SpecHttp: the service-registry handlers of createApp                    *)

HttpCatalog ==
    [loaded |-> TRUE, hasApplication |-> TRUE, application |-> TestApplication,
     hasCompatibility |-> TRUE,
     hasTestedCombinations |-> FALSE, testedCombinations |-> <<>>,
     pairs |-> [k \in {"backend:frontend"} |-> TestedEntry],
     dependencies |-> [backend |-> [scraper |-> Undefined], frontend |-> [backend |-> Undefined]]]

EnvTokens == { Undefined, "", "test-token" }

AuthHeaders ==
    { Undefined, "Bearer test-token", "Bearer test-tokem", "Bearer other", "Bearer ",
      "Basic test-token", "bearer test-token" }

RegisterBodies ==
    { [serviceId |-> "backend", name |-> "Backend Service", version |-> "1.0.0",
       endpoints |-> Undefined, dependencies |-> Undefined],
      [serviceId |-> "frontend", name |-> "Frontend Service", version |-> "1.1.0",
       endpoints |-> "http://localhost:3000", dependencies |-> Undefined],
      [serviceId |-> "backend", name |-> "Backend Service", version |-> "invalid-version",
       endpoints |-> Undefined, dependencies |-> Undefined],
      [serviceId |-> "backend", name |-> Undefined, version |-> "1.0.0",
       endpoints |-> Undefined, dependencies |-> Undefined],
      [serviceId |-> Undefined, name |-> "Backend Service", version |-> "1.0.0",
       endpoints |-> Undefined, dependencies |-> Undefined] }

HttpVersions == { Undefined, "2.0.0", "invalid-version" }

HttpDependents == { Undefined, "backend", "frontend" }

HttpDependentVersions == { Undefined, "0.9.0", "1.0.0" }

\* A request POST /services/register
RegisterRequest(authHeader, body) ==
    LET r == PostServicesRegister(authToken, services, authHeader, body, clock, clock)
    IN  /\ services' = r.services
        /\ last' = [op |-> "POST /services/register", authHeader |-> authHeader, body |-> body,
                    status |-> r.status, error |-> r.error]
        /\ UNCHANGED <<compatibilityMatrix, applicationConfigs, clock, versionData, authToken>>

\* A request PUT /services/:serviceId/version
UpdateRequest(serviceId, version) ==
    LET r == PutServiceVersion(services, serviceId, version, clock)
    IN  /\ services' = r.services
        /\ last' = [op |-> "PUT /services/:serviceId/version", serviceId |-> serviceId,
                    wellFormed |-> ~Falsy(version),
                    wasRegistered |-> MapHas(services, serviceId),
                    status |-> r.status, error |-> r.error]
        /\ UNCHANGED <<compatibilityMatrix, applicationConfigs, clock, versionData, authToken>>

\* A request GET /services/:serviceId
GetRequest(serviceId) ==
    LET r == GetServiceById(services, serviceId)
    IN  /\ last' = [op |-> "GET /services/:serviceId", serviceId |-> serviceId,
                    wellFormed |-> TRUE,
                    wasRegistered |-> MapHas(services, serviceId),
                    status |-> r.status, error |-> r.error]
        /\ UNCHANGED <<services, compatibilityMatrix, applicationConfigs, clock, versionData, authToken>>

\* A request DELETE /services/:serviceId
DeleteRequest(serviceId) ==
    LET r == DeleteService(services, serviceId)
    IN  /\ services' = r.services
        /\ last' = [op |-> "DELETE /services/:serviceId", serviceId |-> serviceId,
                    wellFormed |-> TRUE,
                    wasRegistered |-> MapHas(services, serviceId),
                    status |-> r.status, error |-> r.error]
        /\ UNCHANGED <<compatibilityMatrix, applicationConfigs, clock, versionData, authToken>>

\* A request GET /compatibility/versions/:serviceId
ValidVersionsRequest(serviceId, dependentService, dependentVersion) ==
    LET r == GetCompatibilityVersions(services, compatibilityMatrix, serviceId,
                                      dependentService, dependentVersion)
    IN  /\ last' = [op |-> "GET /compatibility/versions/:serviceId", serviceId |-> serviceId,
                    wellFormed |-> ~Falsy(dependentService) /\ ~Falsy(dependentVersion),
                    wasRegistered |-> MapHas(services, serviceId),
                    status |-> r.status, error |-> r.error]
        /\ UNCHANGED <<services, compatibilityMatrix, applicationConfigs, clock, versionData, authToken>>

InitHttp ==
    /\ versionData = HttpCatalog
    /\ authToken \in EnvTokens
    /\ InitApp

HttpRegister == \E h \in AuthHeaders, b \in RegisterBodies : RegisterRequest(h, b)

HttpUpdate == \E id \in ServiceIds, v \in HttpVersions : UpdateRequest(id, v)

HttpGet == \E id \in ServiceIds : GetRequest(id)

HttpDelete == \E id \in ServiceIds : DeleteRequest(id)

HttpValidVersions == \E id \in ServiceIds, d \in HttpDependents, v \in HttpDependentVersions :
                        ValidVersionsRequest(id, d, v)

NextHttp ==
    \/ HttpRegister
    \/ HttpUpdate
    \/ HttpGet
    \/ HttpDelete
    \/ HttpValidVersions

SpecHttp == InitHttp /\ [][NextHttp]_vars

\* The request carries 'Authorization: Bearer <token>' with exactly the configured token
Authorised(authHeader) ==
    /\ ~Falsy(authToken)
    /\ authHeader = BearerPrefix \o authToken

UnknownIdRequest(l) ==
    /\ l.op \in {"PUT /services/:serviceId/version", "GET /services/:serviceId",
                 "DELETE /services/:serviceId", "GET /compatibility/versions/:serviceId"}
    /\ l.wellFormed
    /\ ~l.wasRegistered

\* C9 as stated: every operation that references an unregistered service id (get service,
\* unregister, update version, valid-versions query) is answered with the not-found
\* status 404, distinct from the client-error status 400 used for malformed input.
C9_UnknownIdIs404 ==
    UnknownIdRequest(last) => last.status = 404

\* C9 amended: get service and unregister answer an unregistered id with 404; update
\* version and the valid-versions query answer it with 400 and the error
\* 'Service <id> not found', the same status they use for malformed input.
C9_UnknownIdStatus ==
    UnknownIdRequest(last) =>
        IF last.op \in {"GET /services/:serviceId", "DELETE /services/:serviceId"}
        THEN last.status = 404 /\ last.error = "Service not found"
        ELSE last.status = 400 /\ last.error = "Service " \o last.serviceId \o " not found"

\* C9 witness: an update of an unregistered id with a valid version was answered 400.
C9_Witness ==
    /\ UnknownIdRequest(last)
    /\ last.op = "PUT /services/:serviceId/version"
    /\ last.status = 400
    /\ last.error = "Service " \o last.serviceId \o " not found"
    /\ services # <<>>

----------------------------------------------------------------------------
(* SpecSeeded: a registry whose matrix createApp seeded from the catalog   *)

\* Catalogs with a pair entry, with a pair entry next to testedCombinations, and without a
\* compatibility section
SeedCatalogs ==
    { HttpCatalog,
      [HttpCatalog EXCEPT !.hasTestedCombinations = TRUE,
                          !.pairs = [k \in {"backend:scraper"} |-> UntestedEntry]],
      [NoCatalog EXCEPT !.loaded = TRUE, !.hasApplication = TRUE,
                                 !.application = TestApplication] }

InitSeeded ==
    /\ versionData \in SeedCatalogs
    /\ authToken = Undefined
    /\ InitApp

NextSeeded ==
    \/ CompatRegister
    \/ DoUnregister
    \/ DoSetConfig
    \/ DoSetMatrix

SpecSeeded == InitSeeded /\ [][NextSeeded]_vars

\* C20: after setCompatibilityMatrix(m) the registry's matrix consists of exactly the
\* entries of m, for a plain-object and for a Map input: no entry of the previous matrix,
\* the one seeded from the catalog included, survives unless m holds it; the service table
\* and the application configs are unchanged by the call.
C20_MatrixReplaced ==
    [][last'.op = "setCompatibilityMatrix" =>
          /\ DOMAIN compatibilityMatrix' = DOMAIN last'.matrix.entries
          /\ \A k \in DOMAIN compatibilityMatrix' : compatibilityMatrix'[k] = last'.matrix.entries[k]
          /\ \A k \in DOMAIN compatibilityMatrix \ DOMAIN last'.matrix.entries :
                k \notin DOMAIN compatibilityMatrix'
          /\ services' = services
          /\ applicationConfigs' = applicationConfigs]_vars

\* C20 witness: the catalog seeded entries, a Map with one entry under another key was
\* set, and the matrix holds that entry only, with a service registered and a config set.
C20_Witness ==
    /\ last.op = "setCompatibilityMatrix"
    /\ last.matrix.isMap
    /\ DOMAIN SeedMatrix(versionData) = {"backend:scraper", "testedCombinations"}
    /\ DOMAIN compatibilityMatrix = {"backend:frontend"}
    /\ services # <<>>
    /\ DOMAIN applicationConfigs # {}

----------------------------------------------------------------------------
(* SpecConfig: application configs of several (appId, version) pairs       *)

\* Application ids and versions are free strings; two of the pairs share the key
\* "figure-collector:2.0.0:rc1"
ConfigAppIds == {"figure-collector", "figure-collector:2.0.0"}

ConfigAppVersions == {"2.0.0", "rc1", "2.0.0:rc1"}

ConfigPairs == ConfigAppIds \X ConfigAppVersions

ConfigInputs ==
    { [requiredServices |-> <<[serviceId |-> "backend", versionRange |-> ">=1.0.0"]>>],
      [requiredServices |-> <<[serviceId |-> "frontend", versionRange |-> ">=2.0.0"]>>] }

ConfigRegister == \E data \in CompatData : RegisterService("backend", data, 0)

ConfigSet == \E p \in ConfigPairs, c \in ConfigInputs : SetApplicationConfig(p[1], p[2], c)

ConfigGet == \E p \in ConfigPairs : GetApplicationServices(p[1], p[2])

NextConfig ==
    \/ ConfigRegister
    \/ ConfigSet
    \/ ConfigGet

SpecConfig == Init /\ [][NextConfig]_vars

\* The config stored for a pair, as the two readers find it
StoredConfig(cfgs, pair) ==
    IF AppKey(pair[1], pair[2]) \in DOMAIN cfgs THEN <<cfgs[AppKey(pair[1], pair[2])]>> ELSE <<>>

\* The config of the call is stored whole, with the time of the call; table and matrix stay
ConfigStoredWhole ==
    /\ StoredConfig(applicationConfigs', <<last'.applicationId, last'.applicationVersion>>) =
          <<[requiredServices |-> last'.config.requiredServices, lastUpdated |-> clock]>>
    /\ services' = services
    /\ compatibilityMatrix' = compatibilityMatrix

\* C21 as stated: setApplicationConfig(appId, version, config) replaces the whole config of
\* that pair, without merging, and leaves the config of every other (appId, version) pair,
\* the service table and the matrix unchanged.
C21_OtherPairsUnchanged ==
    [][last'.op = "setApplicationConfig" =>
          /\ ConfigStoredWhole
          /\ \A pair \in ConfigPairs \ {<<last'.applicationId, last'.applicationVersion>>} :
                StoredConfig(applicationConfigs', pair) = StoredConfig(applicationConfigs, pair)]_vars

\* C21 amended: the call replaces the whole config stored under the key
\* appId + ':' + version, without merging, and leaves the config under every other key,
\* the service table and the matrix unchanged; a pair is left alone exactly when its
\* own appId + ':' + version is another string.
C21_OtherKeysUnchanged ==
    [][last'.op = "setApplicationConfig" =>
          /\ ConfigStoredWhole
          /\ DOMAIN applicationConfigs' =
                DOMAIN applicationConfigs \cup {last'.applicationId \o ":" \o last'.applicationVersion}
          /\ \A k \in DOMAIN applicationConfigs :
                k # last'.applicationId \o ":" \o last'.applicationVersion =>
                   applicationConfigs'[k] = applicationConfigs[k]
          /\ \A pair \in ConfigPairs :
                pair[1] \o ":" \o pair[2] # last'.applicationId \o ":" \o last'.applicationVersion =>
                   StoredConfig(applicationConfigs', pair) = StoredConfig(applicationConfigs, pair)]_vars

\* C21 witness: a config was set for a pair while another pair with the same key and a
\* pair with another key had configs; the three stored configs are now the new one, the
\* new one, and the old one of the other key.
C21_Witness ==
    /\ last.op = "setApplicationConfig"
    /\ last.applicationId = "figure-collector:2.0.0"
    /\ last.applicationVersion = "rc1"
    /\ last.config.requiredServices[1].serviceId = "frontend"
    /\ StoredConfig(applicationConfigs, <<"figure-collector", "2.0.0:rc1">>) =
          StoredConfig(applicationConfigs, <<"figure-collector:2.0.0", "rc1">>)
    /\ StoredConfig(applicationConfigs, <<"figure-collector", "2.0.0">>) # <<>>
    /\ StoredConfig(applicationConfigs, <<"figure-collector", "2.0.0">>)[1].requiredServices[1].serviceId
          = "backend"
    /\ services # <<>>

----------------------------------------------------------------------------
(* SpecMixed: registry operations between GET /validate-versions requests  *)

\* The catalogs with at most one tested combination
MixedCatalogs == { c \in Catalogs : Len(c.testedCombinations) <= 1 }

InitMixed ==
    /\ versionData \in MixedCatalogs
    /\ authToken = Undefined
    /\ InitApp

NextMixed ==
    \/ ConfigRegister
    \/ AppUpdate
    \/ DoUnregister
    \/ DoSetConfig
    \/ CatalogValidate

SpecMixed == InitMixed /\ [][NextMixed]_vars

\* C29: the answer of GET /validate-versions is a function of the catalog and the query
\* only: after any sequence of register, update, unregister and set-config calls it is the
\* answer the same catalog gives the same query with an empty registry; the request
\* itself changes neither the service table, the matrix, the application configs nor the
\* catalog.
C29_ValidationIgnoresRegistry ==
    [][last'.op = "GET /validate-versions" =>
          /\ last'.response = GetValidateVersions(versionData, last'.query)
          /\ services' = services
          /\ compatibilityMatrix' = compatibilityMatrix
          /\ applicationConfigs' = applicationConfigs
          /\ versionData' = versionData]_vars

\* C29 witness: with a service registered and an application config set, a query that
\* leaves the backend version out was answered with the backend warning.
C29_Witness ==
    /\ Validated(last)
    /\ MapHas(services, "backend")
    /\ MapGet(services, "backend").version = "2.0.0"
    /\ DOMAIN applicationConfigs # {}
    /\ last.query.backend = Undefined
    /\ last.response.body.warnings = <<"Frontend expects backend >=2.0.0, got no version">>

----------------------------------------------------------------------------
(* SpecConcurrent: requests in flight at the same time                     *)

\* Most requests in flight at once
MaxInFlight == 2

InFlightRequests ==
    { [kind |-> "register", serviceId |-> "backend", version |-> "1.0.0"],
      [kind |-> "register", serviceId |-> "backend", version |-> "1.1.0"],
      [kind |-> "register", serviceId |-> "frontend", version |-> "1.0.0"],
      [kind |-> "update", serviceId |-> "backend", version |-> "2.0.0"],
      [kind |-> "update", serviceId |-> "backend", version |-> "invalid-version"],
      [kind |-> "delete", serviceId |-> "backend", version |-> Undefined],
      [kind |-> "get", serviceId |-> "backend", version |-> Undefined] }

Batches == [1..MaxInFlight -> InFlightRequests]

\* What the handler of one request does to the table svcs, and what it answers; a
\* registration carries the configured token
RequestOutcome(req, svcs) ==
    CASE req.kind = "register" ->
            LET r == PostServicesRegister(authToken, svcs, BearerPrefix \o authToken,
                        [serviceId |-> req.serviceId, name |-> "Service",
                         version |-> req.version, endpoints |-> Undefined,
                         dependencies |-> Undefined], clock, clock)
            IN  [services |-> r.services,
                 response |-> [status |-> r.status,
                               body |-> IF r.status = 201 THEN req.version ELSE r.error]]
      [] req.kind = "update" ->
            LET r == PutServiceVersion(svcs, req.serviceId, req.version, clock)
            IN  [services |-> r.services,
                 response |-> [status |-> r.status,
                               body |-> IF r.status = 200 THEN req.version ELSE r.error]]
      [] req.kind = "delete" ->
            LET r == DeleteService(svcs, req.serviceId)
            IN  [services |-> r.services,
                 response |-> [status |-> r.status,
                               body |-> IF r.status = 200 THEN "Service unregistered successfully"
                                                          ELSE r.error]]
      [] req.kind = "get" ->
            LET r == GetServiceById(svcs, req.serviceId)
            IN  [services |-> r.services,
                 response |-> [status |-> r.status,
                               body |-> IF r.status = 200 THEN MapGet(svcs, req.serviceId).version
                                                          ELSE r.error]]

NoResponse == [status |-> 0, body |-> Undefined]

\* Position of a request's handler: not started, or done (a handler is a synchronous
\* callback); seen is its local variable service
NotStarted == [at |-> "pending", seen |-> <<>>]

Done == [at |-> "done", seen |-> <<>>]

BatchOver == last.op = "none" \/ (last.op = "requests" /\ \A i \in DOMAIN last.stage : last.stage[i].at = "done")

\* Clients send a batch of requests before any of them is handled
IssueRequests(reqs) ==
    /\ BatchOver
    /\ last' = [op |-> "requests", start |-> services, requests |-> reqs,
                stage |-> [i \in DOMAIN reqs |-> NotStarted],
                order |-> <<>>,
                responses |-> [i \in DOMAIN reqs |-> NoResponse]]
    /\ UNCHANGED <<services, compatibilityMatrix, applicationConfigs, clock, versionData, authToken>>

\* An update handler that yields between reading the registration and writing it back
HandleRequest_ReadThenWrite(i) ==
    /\ last.op = "requests"
    /\ i \in DOMAIN last.requests
    /\ LET req == last.requests[i]
       IN  IF req.kind = "update" /\ semverValid(req.version)
           THEN \/ /\ last.stage[i].at = "pending"
                   /\ last' = [last EXCEPT !.stage[i] =
                                   [at |-> "read", seen |-> getService(services, req.serviceId)]]
                   /\ services' = services
                \/ /\ last.stage[i].at = "read"
                   /\ IF last.stage[i].seen = <<>>
                      THEN /\ services' = services
                           /\ last' = [last EXCEPT !.stage[i] = Done,
                                           !.order = Append(@, i),
                                           !.responses[i] = [status |-> 400,
                                               body |-> "Service " \o req.serviceId \o " not found"]]
                      ELSE /\ services' = MapSet(services, req.serviceId,
                                              [last.stage[i].seen[1] EXCEPT !.version = req.version,
                                                                            !.lastUpdated = clock])
                           /\ last' = [last EXCEPT !.stage[i] = Done,
                                           !.order = Append(@, i),
                                           !.responses[i] = [status |-> 200, body |-> req.version]]
           ELSE /\ last.stage[i].at = "pending"
                /\ LET r == RequestOutcome(req, services)
                   IN  /\ services' = r.services
                       /\ last' = [last EXCEPT !.stage[i] = Done,
                                       !.order = Append(@, i),
                                       !.responses[i] = r.response]
    /\ UNCHANGED <<compatibilityMatrix, applicationConfigs, clock, versionData, authToken>>

\* The event loop runs the handler of one pending request, from start to end
HandleRequest(i) ==
    /\ last.op = "requests"
    /\ i \in DOMAIN last.requests
    /\ last.stage[i].at = "pending"
    /\ LET r == RequestOutcome(last.requests[i], services)
       IN  /\ services' = r.services
           /\ last' = [last EXCEPT !.stage[i] = Done,
                           !.order = Append(@, i),
                           !.responses[i] = r.response]
    /\ UNCHANGED <<compatibilityMatrix, applicationConfigs, clock, versionData, authToken>>

InitConcurrent ==
    /\ versionData = HttpCatalog
    /\ authToken = "test-token"
    /\ InitApp

ConcurrentIssue == \E reqs \in Batches : IssueRequests(reqs)

ConcurrentHandle == \E i \in 1..MaxInFlight : HandleRequest(i)

NextConcurrent ==
    \/ ConcurrentIssue
    \/ ConcurrentHandle

SpecConcurrent == InitConcurrent /\ [][NextConcurrent]_vars

\* The requests of reqs handled one after the other in the order ord, from the table svcs:
\* the table they leave and their responses, in that order
RECURSIVE SequentialRun(_, _, _)
SequentialRun(svcs, reqs, ord) ==
    IF ord = <<>>
    THEN [services |-> svcs, responses |-> <<>>]
    ELSE LET r == RequestOutcome(reqs[Head(ord)], svcs)
             rest == SequentialRun(r.services, reqs, Tail(ord))
         IN  [services |-> rest.services, responses |-> <<r.response>> \o rest.responses]

\* The orders in which the requests in S can be handled one after the other
Orderings(S) ==
    { ord \in [1..Cardinality(S) -> S] : \A a, b \in 1..Cardinality(S) : ord[a] = ord[b] => a = b }

Answered == { i \in DOMAIN last.stage : last.stage[i].at = "done" }

\* C30: every public registry operation is atomic: for any interleaving of concurrently
\* issued requests, at every moment the service table and the responses given so far are
\* those of some sequential execution of the answered requests from the table the batch
\* started with, and a request that is not answered yet has left no trace in the table.
C30_Linearizable ==
    last.op = "requests" =>
        \E ord \in Orderings(Answered) :
            LET run == SequentialRun(last.start, last.requests, ord)
            IN  /\ run.services = services
                /\ \A k \in 1..Len(ord) : last.responses[ord[k]] = run.responses[k]

\* C30 witness: an update and an unregister of the same registered id were in flight
\* together and both are answered 200: the update was handled first and the id is gone.
C30_Witness ==
    /\ last.op = "requests"
    /\ Answered = DOMAIN last.requests
    /\ last.start # <<>>
    /\ \E i, j \in DOMAIN last.requests :
          /\ last.requests[i].kind = "update"
          /\ last.requests[j].kind = "delete"
          /\ last.responses[i].status = 200
          /\ last.responses[j].status = 200
    /\ ~MapHas(services, "backend")

\* Two registrations of the same id with different versions, both answered 201
TwoRegistrationsRaced ==
    /\ last.op = "requests"
    /\ Answered = DOMAIN last.requests
    /\ \E i, j \in DOMAIN last.requests :
          /\ last.requests[i].kind = "register" /\ last.requests[j].kind = "register"
          /\ last.requests[i].serviceId = last.requests[j].serviceId
          /\ last.requests[i].version # last.requests[j].version
          /\ last.responses[i].status = 201 /\ last.responses[j].status = 201

====
